---- MODULE Spec2Model ----
(***************************************************************************)
(* Model of scripts/update_leaderboard.py: the per-source snapshot cache   *)
(* (the three load-or-fetch functions), the pipeline of main() and the     *)
(* combiner/ranker _combine_sources.                                       *)
(*                                                                         *)
(* Encodings.  A Python Optional is a sequence of length 0 (None) or 1.    *)
(* Text is a sequence of code points, so that case folding, substring      *)
(* search and the ordering of str are computed, not assumed.  Metric       *)
(* values (floats in the program) are integers.  fetched_at is the day     *)
(* number of the timestamp, day 0 being 1970-01-01.                        *)
(***************************************************************************)
EXTENDS Integers, Sequences, FiniteSets, TLC

VARIABLES
    cache,      \* cache_dir: source name -> Optional snapshot (the JSON file)
    now,        \* the wall clock read by _utc_now_iso
    call,       \* Optional record of the last load-or-fetch call and its result
    target,     \* SpecLoader: the loader function and cache file exercised
    pc,         \* main(): position in the run
    args,       \* main(): the parsed command line
    payloads,   \* main(): the list `payloads`; SpecCombine: combine's argument
    runStart,   \* main(): the cache directory as the run found it
    combined    \* Optional result of the last _combine_sources call

vars == <<cache, now, call, target, pc, args, payloads, runStart, combined>>

-----------------------------------------------------------------------------
(* Bounds of the model *)

\* Last value of the clock.
MaxClock == 2
\* Longest row list a fetch (or a local CSV, or the index.html table) yields.
MaxFetchRows == 1
\* Most rows, over all snapshots, handed to _combine_sources in SpecCombine.
MaxCombineRows == 3

-----------------------------------------------------------------------------
(* Optional values and text *)

None == <<>>
Some(x) == <<x>>
IsSome(o) == o # <<>>
Get(o) == o[1]

\* str.casefold on ASCII text: 'A'..'Z' (65..90) become 'a'..'z'.
Casefold(s) == [i \in DOMAIN s |-> IF s[i] \in 65..90 THEN s[i] + 32 ELSE s[i]]

\* Python's `sub in s` for text.
Contains(sub, s) ==
    \E i \in 1..(Len(s) - Len(sub) + 1) : SubSeq(s, i, i + Len(sub) - 1) = sub

\* Python's `a < b` on str: lexicographic by code point, a proper prefix first.
StrLess(a, b) ==
    \E i \in 1..Len(b) :
        /\ \A j \in 1..(i - 1) : j <= Len(a) /\ a[j] = b[j]
        /\ \/ i = Len(a) + 1
           \/ i <= Len(a) /\ a[i] < b[i]

\* "placeholder"
PlaceholderWord == <<112, 108, 97, 99, 101, 104, 111, 108, 100, 101, 114>>
\* "Placeholder"
PlaceholderNote == <<80, 108, 97, 99, 101, 104, 111, 108, 100, 101, 114>>
\* "Loaded from local CSV: x" is abbreviated to "CSV"
LocalCsvNote == <<67, 83, 86>>
\* Team names "Alpha" and "Beta"
Alpha == <<65, 108, 112, 104, 97>>
Beta == <<66, 101, 116, 97>>

-----------------------------------------------------------------------------
(* Sources and snapshots *)

Sources == {"codalab-old", "codalab-new", "codabench"}

CompetitionId(source) ==
    CASE source = "codalab-old" -> 24122
      [] source = "codalab-new" -> 420
      [] source = "codabench" -> 13955

RESULT_URLS(source) ==
    CASE source = "codalab-old" -> "https://competitions.codalab.org/competitions/24122#results"
      [] source = "codalab-new" -> "https://codalab.lisn.upsaclay.fr/competitions/420#results"
      [] source = "codabench" -> "https://www.codabench.org/competitions/13955/#/results-tab"

CODABENCH_DEFAULT_PHASE_ID == 23177

\* The day of the timestamps that start with "1970-01-01".
Epoch == 0

\* A canonical row as the row normalizers build it (the date fields, which
\* neither the cache logic nor the sort reads, are left out).
Row(team, auc, mrr, ndcg5, ndcg10) ==
    [team |-> team, auc |-> auc, mrr |-> mrr, ndcg5 |-> ndcg5, ndcg10 |-> ndcg10]

\* The snapshot dict written to and read from a cache file.  base_url, method,
\* results_id and phase are written but never read back and are left out.
Payload(source, fetched_at, note, phase_id, rows) ==
    [source |-> source,
     competition_id |-> CompetitionId(source),
     results_url |-> RESULT_URLS(source),
     fetched_at |-> fetched_at,
     note |-> note,
     phase_id |-> phase_id,
     rows |-> rows]

_is_placeholder_payload(payload) ==
    \/ payload.fetched_at = Epoch
    \/ IsSome(payload.note) /\ Contains(PlaceholderWord, Casefold(Get(payload.note)))
    \/ payload.rows = <<>>

-----------------------------------------------------------------------------
(* What the network (or the headless browser) answers to one request *)

\* status "ok" carries the rows the row normalizer made of the answer;
\* "http403" is urllib.error.HTTPError with code 403; "error" is any other
\* exception (transport error, bad payload, no results table, no phase id).
Response(status, rows) == [status |-> status, rows |-> rows]

\* The rows of the model's leaderboards: one team per row, a metric present
\* or missing.
FetchRowPool ==
    {Row(Alpha, Some(1), Some(1), Some(1), Some(1)),
     Row(Beta, Some(2), None, Some(1), None)}

SeqsUpTo(S, n) == UNION {[1..k -> S] : k \in 0..n}

FetchRowsets == SeqsUpTo(FetchRowPool, MaxFetchRows)

Responses ==
    {Response("ok", rows) : rows \in FetchRowsets}
        \cup {Response("http403", <<>>), Response("error", <<>>)}

\* The answers of the CSV export endpoint and of the scraped results tab that
\* a codabench fetch with this method can read, out of `answers`; the one it
\* does not ask for is shown as an error.
CodabenchNets(method, answers) ==
    LET unasked == Response("error", <<>>)
        csvOnly == {[csv |-> r, scrape |-> unasked] : r \in answers}
        scrapeOnly == {[csv |-> unasked, scrape |-> r] : r \in answers}
        forbidden == Response("http403", <<>>)
    IN  CASE method = "scrape" -> scrapeOnly
          [] method = "csv" -> csvOnly
          [] method = "auto" ->
                {n \in csvOnly : n.csv # forbidden}
                    \cup {[csv |-> forbidden, scrape |-> r] : r \in answers}
          [] OTHER -> {[csv |-> unasked, scrape |-> unasked]}

-----------------------------------------------------------------------------
(* The three load-or-fetch functions *)

\* What a call did: error is "none" when it returned `ret`, else the kind of
\* exception it raised; warned: a WARN line went to stderr; fetches: how often
\* it invoked its fetch; fetched: the rows the fetch returned, None when it
\* did not run or raised; file: the cache file after the call; written:
\* _write_json ran on the cache file.
Result(error, ret, warned, fetches, fetched, file, written) ==
    [error |-> error, ret |-> ret, warned |-> warned, fetches |-> fetches,
     fetched |-> fetched, file |-> file, written |-> written]

Methods == {"scrape", "csv", "auto"}

\* The closure _fetch_rows of _codabench_load_or_fetch; net is the pair of
\* answers of the CSV export endpoint and of the scraped results tab.
_fetch_rows(method, net) ==
    CASE method = "scrape" -> net.scrape
      [] method = "csv" -> net.csv
      [] OTHER -> IF net.csv.status = "http403" THEN net.scrape ELSE net.csv

\* Mutant: the early return on an existing cache is gone; every call fetches.
CodabenchAlwaysFetch(cached, refresh, method, net, clock) ==
    LET got == _fetch_rows(method, net)
        payload == Payload("codabench", clock, None, Some(CODABENCH_DEFAULT_PHASE_ID), got.rows)
    IN  IF got.status # "ok"
        THEN IF IsSome(cached) /\ ~_is_placeholder_payload(Get(cached))
             THEN Result("none", cached, TRUE, 1, None, cached, FALSE)
             ELSE Result("fetch", None, FALSE, 1, None, cached, FALSE)
        ELSE Result("none", Some(payload), FALSE, 1, Some(payload.rows), Some(payload), TRUE)

\* Mutant: a failed refresh falls back to any cached snapshot, placeholder or not.
CodabenchFallbackAnyCache(cached, refresh, method, net, clock) ==
    IF IsSome(cached) /\ ~refresh
    THEN Result("none", cached, _is_placeholder_payload(Get(cached)), 0, None, cached, FALSE)
    ELSE
        LET got == _fetch_rows(method, net)
            payload == Payload("codabench", clock, None, Some(CODABENCH_DEFAULT_PHASE_ID), got.rows)
        IN  IF got.status # "ok"
            THEN IF IsSome(cached)
                 THEN Result("none", cached, TRUE, 1, None, cached, FALSE)
                 ELSE Result("fetch", None, FALSE, 1, None, cached, FALSE)
            ELSE Result("none", Some(payload), FALSE, 1, Some(payload.rows), Some(payload), TRUE)

_codabench_load_or_fetch(cached, refresh, method, net, clock) ==
    IF IsSome(cached) /\ ~refresh
    THEN Result("none", cached, _is_placeholder_payload(Get(cached)), 0, None, cached, FALSE)
    ELSE
        LET phase_id ==
                IF IsSome(cached) /\ IsSome(Get(cached).phase_id)
                THEN Get(Get(cached).phase_id)
                ELSE CODABENCH_DEFAULT_PHASE_ID
            got == _fetch_rows(method, net)
            payload == Payload("codabench", clock, None, Some(phase_id), got.rows)
        IN  IF method \notin Methods
            THEN Result("invalid_method", None, FALSE, 0, None, cached, FALSE)
            ELSE IF got.status # "ok"
            THEN IF IsSome(cached) /\ ~_is_placeholder_payload(Get(cached))
                 THEN Result("none", cached, TRUE, 1, None, cached, FALSE)
                 ELSE Result("fetch", None, FALSE, 1, None, cached, FALSE)
            ELSE Result("none", Some(payload), FALSE, 1, Some(payload.rows), Some(payload), TRUE)

\* Mutant: the missing-cache check is gone; with no cache the loader fetches.
ResultsCsvNoMissingCheck(cached, refresh, source_name, net, clock) ==
    IF IsSome(cached) /\ ~refresh
    THEN Result("none", cached, _is_placeholder_payload(Get(cached)), 0, None, cached, FALSE)
    ELSE IF net.status # "ok"
    THEN Result("fetch", None, FALSE, 1, None, cached, FALSE)
    ELSE LET payload == Payload(source_name, clock, None, None, net.rows)
         IN  Result("none", Some(payload), FALSE, 1, Some(payload.rows), Some(payload), TRUE)

\* Mutant: the fetched snapshot is returned but _write_json is never called.
ResultsCsvNoWrite(cached, refresh, source_name, net, clock) ==
    IF IsSome(cached) /\ ~refresh
    THEN Result("none", cached, _is_placeholder_payload(Get(cached)), 0, None, cached, FALSE)
    ELSE IF ~refresh /\ ~IsSome(cached)
    THEN Result("missing_cache", None, FALSE, 0, None, cached, FALSE)
    ELSE IF net.status # "ok"
    THEN Result("fetch", None, FALSE, 1, None, cached, FALSE)
    ELSE LET payload == Payload(source_name, clock, None, None, net.rows)
         IN  Result("none", Some(payload), FALSE, 1, Some(payload.rows), cached, FALSE)

_codalab_load_or_fetch_from_results_csv(cached, refresh, source_name, net, clock) ==
    IF IsSome(cached) /\ ~refresh
    THEN Result("none", cached, _is_placeholder_payload(Get(cached)), 0, None, cached, FALSE)
    ELSE IF ~refresh /\ ~IsSome(cached)
    THEN Result("missing_cache", None, FALSE, 0, None, cached, FALSE)
    ELSE IF net.status # "ok"
    THEN Result("fetch", None, FALSE, 1, None, cached, FALSE)
    ELSE LET payload == Payload(source_name, clock, None, None, net.rows)
         IN  Result("none", Some(payload), FALSE, 1, Some(payload.rows), Some(payload), TRUE)

\* Lines 767-791 of _codalab_load_or_fetch: what a call does once the cached,
\* no-refresh case is behind it (the function calls itself with refresh=True
\* to get here from a placeholder cache).
CodalabFetchPhase(cached, refresh, source_name, net, clock) ==
    IF ~refresh /\ ~IsSome(cached)
    THEN Result("missing_cache", None, FALSE, 0, None, cached, FALSE)
    ELSE IF net.status # "ok"
    THEN Result("fetch", None, FALSE, 1, None, cached, FALSE)
    ELSE LET payload == Payload(source_name, clock, None, None, net.rows)
         IN  Result("none", Some(payload), FALSE, 1, Some(payload.rows), Some(payload), TRUE)

\* Mutant: a placeholder cache is returned as it is, without the one fetch.
PhaseApiNoUpgrade(cached, refresh, source_name, net, clock) ==
    IF IsSome(cached) /\ ~refresh
    THEN Result("none", cached, _is_placeholder_payload(Get(cached)), 0, None, cached, FALSE)
    ELSE CodalabFetchPhase(cached, refresh, source_name, net, clock)

_codalab_load_or_fetch(cached, refresh, source_name, net, clock) ==
    IF IsSome(cached) /\ ~refresh
    THEN IF ~_is_placeholder_payload(Get(cached))
         THEN Result("none", cached, FALSE, 0, None, cached, FALSE)
         ELSE LET inner == CodalabFetchPhase(cached, TRUE, source_name, net, clock)
              IN  IF inner.error # "none"
                  THEN Result("none", cached, TRUE, inner.fetches, None, inner.file, FALSE)
                  ELSE inner
    ELSE CodalabFetchPhase(cached, refresh, source_name, net, clock)

-----------------------------------------------------------------------------
(* The combiner/ranker *)

\* float("-inf"): below every metric value of the model, which are naturals.
NegInf == -1

\* The closure val of _metric_sort_key.
MetricVal(row, k) == IF IsSome(row[k]) THEN Get(row[k]) ELSE NegInf

_metric_sort_key(row) ==
    <<MetricVal(row, "auc"), MetricVal(row, "mrr"), MetricVal(row, "ndcg5"),
      MetricVal(row, "ndcg10"), row.team>>

\* Mutant: ties on the four metrics are broken by team name in the other
\* direction, so that the reversed sort lists teams alphabetically.
KeyLessTeamAscending(a, b) ==
    \/ \E i \in 1..4 : a[i] < b[i] /\ \A j \in 1..(i - 1) : a[j] = b[j]
    \/ (\A j \in 1..4 : a[j] = b[j]) /\ StrLess(b[5], a[5])

\* Python's `a < b` on two sort keys (tuples of four floats and a str).
KeyLess(a, b) ==
    \/ \E i \in 1..4 : a[i] < b[i] /\ \A j \in 1..(i - 1) : a[j] = b[j]
    \/ (\A j \in 1..4 : a[j] = b[j]) /\ StrLess(a[5], b[5])

\* One step of a stable descending sort: r goes behind every row whose key is
\* not less than r's.
InsertDescending(sorted, r) ==
    LET keep == {i \in 0..Len(sorted) :
                    \A j \in 1..i : ~KeyLess(_metric_sort_key(sorted[j]), _metric_sort_key(r))}
        n == CHOOSE i \in keep : \A j \in keep : j <= i
    IN  SubSeq(sorted, 1, n) \o <<r>> \o SubSeq(sorted, n + 1, Len(sorted))

\* list.sort(key=_metric_sort_key, reverse=True): descending and stable (rows
\* with equal keys keep the order they had in the list).
RECURSIVE SortByMetricKey(_)
SortByMetricKey(rows) ==
    IF rows = <<>>
    THEN <<>>
    ELSE InsertDescending(SortByMetricKey(SubSeq(rows, 1, Len(rows) - 1)), rows[Len(rows)])

\* The copy of a snapshot row that goes into combined_rows (rank comes later).
StampedRow(r, payload) ==
    [team |-> r.team, auc |-> r.auc, mrr |-> r.mrr, ndcg5 |-> r.ndcg5, ndcg10 |-> r.ndcg10,
     source |-> payload.source,
     competition_id |-> payload.competition_id,
     results_url |-> payload.results_url]

SourceMeta(payload) ==
    [source |-> payload.source,
     competition_id |-> payload.competition_id,
     results_url |-> payload.results_url,
     fetched_at |-> payload.fetched_at]

\* Mutant: the `if rows:` guard is gone; every snapshot is listed in sources.
RECURSIVE CollectRowsListsAll(_)
CollectRowsListsAll(source_payloads) ==
    IF source_payloads = <<>>
    THEN [sources |-> <<>>, rows |-> <<>>]
    ELSE LET n == Len(source_payloads)
             payload == source_payloads[n]
             before == CollectRowsListsAll(SubSeq(source_payloads, 1, n - 1))
         IN  [sources |-> Append(before.sources, SourceMeta(payload)),
              rows |-> before.rows \o
                       [i \in 1..Len(payload.rows) |-> StampedRow(payload.rows[i], payload)]]

\* The loop of _combine_sources: (sources_meta, combined_rows) after the
\* payloads of the list, in list order.
RECURSIVE CollectRows(_)
CollectRows(source_payloads) ==
    IF source_payloads = <<>>
    THEN [sources |-> <<>>, rows |-> <<>>]
    ELSE LET n == Len(source_payloads)
             payload == source_payloads[n]
             before == CollectRows(SubSeq(source_payloads, 1, n - 1))
         IN  [sources |-> IF payload.rows # <<>>
                          THEN Append(before.sources, SourceMeta(payload))
                          ELSE before.sources,
              rows |-> before.rows \o
                       [i \in 1..Len(payload.rows) |-> StampedRow(payload.rows[i], payload)]]

\* r with its rank.
Ranked(r, i) ==
    [team |-> r.team, auc |-> r.auc, mrr |-> r.mrr, ndcg5 |-> r.ndcg5, ndcg10 |-> r.ndcg10,
     source |-> r.source, competition_id |-> r.competition_id,
     results_url |-> r.results_url, rank |-> i]

\* The five fields a snapshot row and a combined row share are equal.
SameStamped(a, b) ==
    /\ a.team = b.team /\ a.auc = b.auc /\ a.mrr = b.mrr
    /\ a.ndcg5 = b.ndcg5 /\ a.ndcg10 = b.ndcg10

\* Mutant: rows with the same sort key share the rank of the first of them.
RankSharedOnTies(sorted, i) ==
    CHOOSE j \in 1..i :
        /\ _metric_sort_key(sorted[j]) = _metric_sort_key(sorted[i])
        /\ \A k \in 1..(j - 1) : _metric_sort_key(sorted[k]) # _metric_sort_key(sorted[i])

\* The number enumerate(combined_rows, 1) pairs with the row at position i.
RankAt(sorted, i) == i

_combine_sources(source_payloads, clock) ==
    LET collected == CollectRows(source_payloads)
        sorted == SortByMetricKey(collected.rows)
    IN  [generated_at |-> clock,
         sources |-> collected.sources,
         rows |-> [i \in 1..Len(sorted) |-> Ranked(sorted[i], RankAt(sorted, i))]]

-----------------------------------------------------------------------------
(* SpecLoader: one load-or-fetch function called again and again on its     *)
(* cache file, with any refresh flag and any answer of the network          *)

\* _codalab_load_or_fetch is called by nothing but itself; the other two are
\* the loaders main() uses.
Targets ==
    {[loader |-> "codabench", source |-> "codabench"]}
        \cup {[loader |-> l, source |-> s] :
                l \in {"results_csv", "phase_api"}, s \in {"codalab-old", "codalab-new"}}

\* The cache files a run can find: none, a snapshot a fetch wrote, or a
\* hand-made placeholder (epoch timestamp, a note saying so, no rows).
InitSnapshots(source) ==
    {None} \cup
    {Some(Payload(source, f, n, ph, r)) :
        f \in {Epoch, 1},
        n \in {None, Some(PlaceholderNote)},
        ph \in IF source = "codabench" THEN {None, Some(CODABENCH_DEFAULT_PHASE_ID)} ELSE {None},
        r \in FetchRowsets}

NoArgs == None

InitLoader ==
    /\ target \in Targets
    /\ \E c \in InitSnapshots(target.source) :
           cache = [s \in Sources |-> IF s = target.source THEN c ELSE None]
    /\ now = 1
    /\ call = None
    /\ pc = "idle"
    /\ args = NoArgs
    /\ payloads = <<>>
    /\ runStart = cache
    /\ combined = None

\* Time passes between two calls.
Tick ==
    /\ now < MaxClock
    /\ now' = now + 1
    /\ UNCHANGED <<cache, call, target, pc, args, payloads, runStart, combined>>

\* A call as `call` remembers it: which loader on which cache file, its refresh
\* flag, the clock and the cache file when it began, and what it did.
CallRecord(loader, source, refresh, pre, res) ==
    [loader |-> loader, source |-> source, refresh |-> refresh, at |-> now,
     pre |-> pre, res |-> res]

LoadCodabench ==
    /\ target.loader = "codabench"
    /\ \E refresh \in BOOLEAN, method \in Methods \cup {"html"} :
       \E net \in CodabenchNets(method, Responses) :
           LET res == _codabench_load_or_fetch(cache["codabench"], refresh, method, net, now)
           IN  /\ cache' = [cache EXCEPT !["codabench"] = res.file]
               /\ call' = Some(CallRecord("codabench", "codabench", refresh,
                                          cache["codabench"], res))
    /\ UNCHANGED <<now, target, pc, args, payloads, runStart, combined>>

LoadResultsCsv ==
    /\ target.loader = "results_csv"
    /\ \E refresh \in BOOLEAN, net \in Responses :
           LET res == _codalab_load_or_fetch_from_results_csv(
                          cache[target.source], refresh, target.source, net, now)
           IN  /\ cache' = [cache EXCEPT ![target.source] = res.file]
               /\ call' = Some(CallRecord("results_csv", target.source, refresh,
                                          cache[target.source], res))
    /\ UNCHANGED <<now, target, pc, args, payloads, runStart, combined>>

LoadPhaseApi ==
    /\ target.loader = "phase_api"
    /\ \E refresh \in BOOLEAN, net \in Responses :
           LET res == _codalab_load_or_fetch(
                          cache[target.source], refresh, target.source, net, now)
           IN  /\ cache' = [cache EXCEPT ![target.source] = res.file]
               /\ call' = Some(CallRecord("phase_api", target.source, refresh,
                                          cache[target.source], res))
    /\ UNCHANGED <<now, target, pc, args, payloads, runStart, combined>>

NextLoader == Tick \/ LoadCodabench \/ LoadResultsCsv \/ LoadPhaseApi

SpecLoader == InitLoader /\ [][NextLoader]_vars

-----------------------------------------------------------------------------
(* Spec: one run of main() over the cache directory.  The run begins at     *)
(* time 2, after the snapshots it finds were fetched, and its timestamps    *)
(* are equal.                                                               *)

\* The cache files a run finds for a source: none, the placeholder shipped
\* with the site, or a snapshot an earlier run fetched.
RunSnapshots(source) ==
    {None,
     Some(Payload(source, Epoch, Some(PlaceholderNote), None, <<>>)),
     Some(Payload(source, 1, None, None, <<Row(Alpha, Some(1), Some(1), Some(1), Some(1))>>))}

\* What a fetch, a local CSV or the index.html table yields during a run:
\* rows that no snapshot of RunSnapshots holds.
RunRowPool == {Row(Beta, Some(2), None, Some(1), None)}

RunRowsets == SeqsUpTo(RunRowPool, MaxFetchRows)

RunResponses ==
    {Response("ok", rows) : rows \in RunRowsets}
        \cup {Response("http403", <<>>), Response("error", <<>>)}

\* The flags of the command line that decide which cache files a run may
\* replace.  The other options (--codabench-phase-id, --codabench-method,
\* --output-js, --write-index) are drawn where main() reads them.
ArgSets ==
    [bootstrap : BOOLEAN, old_csv : BOOLEAN, new_csv : BOOLEAN,
     refresh_old : BOOLEAN, refresh_new : BOOLEAN, refresh_bench : BOOLEAN]

\* The value of --codabench-phase-id.
PhaseIds == {CODABENCH_DEFAULT_PHASE_ID}

Init ==
    /\ cache \in [Sources -> UNION {RunSnapshots(s) : s \in Sources}]
    /\ \A s \in Sources : cache[s] \in RunSnapshots(s)
    /\ now = 2
    /\ call = None
    /\ target = [loader |-> "main", source |-> "codabench"]
    /\ pc = "bootstrap"
    /\ args \in {Some(a) : a \in ArgSets}
    /\ payloads = <<>>
    /\ runStart = cache
    /\ combined = None

\* Lines 1094-1110: --bootstrap-codalab-old-from-index.  index is what
\* _bootstrap_rows_from_index_static_table makes of the file: rows, or an
\* exception when the file cannot be read.
Bootstrap ==
    /\ pc = "bootstrap"
    /\ IF ~Get(args).bootstrap
       THEN /\ pc' = "old"
            /\ UNCHANGED cache
       ELSE \E index \in {Response("ok", rows) : rows \in RunRowsets}
                            \cup {Response("error", <<>>)} :
                IF index.status # "ok"
                THEN /\ pc' = "failed"
                     /\ UNCHANGED cache
                ELSE /\ pc' = "old"
                     /\ cache' = IF index.rows # <<>>
                                 THEN [cache EXCEPT !["codalab-old"] =
                                          Some(Payload("codalab-old", now, None, None, index.rows))]
                                 ELSE cache
    /\ UNCHANGED <<now, call, target, args, payloads, runStart, combined>>

\* _codalab_load_from_local_csv; csv is what reading and parsing the local
\* file gives.
_codalab_load_from_local_csv(cached, source_name, csv, clock) ==
    IF csv.status # "ok"
    THEN Result("fetch", None, FALSE, 0, None, cached, FALSE)
    ELSE LET payload == Payload(source_name, clock, Some(LocalCsvNote), None, csv.rows)
         IN  Result("none", Some(payload), FALSE, 0, None, Some(payload), TRUE)

\* Lines 1112-1128 and 1131-1147: one of the two try blocks of the CodaLab
\* sources; an exception is a WARN line and the source is left out.
\* What a load step of main() leaves on the terminal: nothing, or the WARN
\* or ERROR line of its except block.
Outcome(source, error) == [source |-> source, error |-> error]

\* Mutant: the except block of a CodaLab source raises again, as the one of
\* codabench does.
AfterCodalabRaises(error, next) == IF error = "none" THEN next ELSE "failed"

\* Where main() goes on after the try block of a CodaLab source: the except
\* block prints and falls through.
AfterCodalab(error, next) == next

\* Where main() goes on after the try block of codabench: the except blocks
\* print and raise.
AfterCodabench(error) == IF error = "none" THEN "combine" ELSE "failed"

LoadCodalab(source, use_csv, refresh, next) ==
    /\ \E net \in RunResponses :
           LET res == IF use_csv
                      THEN _codalab_load_from_local_csv(cache[source], source, net, now)
                      ELSE _codalab_load_or_fetch_from_results_csv(
                               cache[source], refresh, source, net, now)
           IN  /\ cache' = [cache EXCEPT ![source] = res.file]
               /\ payloads' = IF res.error = "none"
                              THEN Append(payloads, Get(res.ret))
                              ELSE payloads
               /\ call' = Some(Outcome(source, res.error))
               /\ pc' = AfterCodalab(res.error, next)
    /\ UNCHANGED <<now, target, args, runStart, combined>>

LoadCodalabOld ==
    /\ pc = "old"
    /\ LoadCodalab("codalab-old", Get(args).old_csv, Get(args).refresh_old, "new")

LoadCodalabNew ==
    /\ pc = "new"
    /\ LoadCodalab("codalab-new", Get(args).new_csv, Get(args).refresh_new, "bench")

\* Lines 1152-1158: an existing codabench cache file gets --codabench-phase-id.
WithPhaseId(cached, phase_id) ==
    IF IsSome(cached)
    THEN Some([Get(cached) EXCEPT !.phase_id = Some(phase_id)])
    ELSE cached

\* Lines 1149-1182: the codabench source; an exception ends the run.
LoadCodabenchInRun ==
    /\ pc = "bench"
    /\ \E phase_id \in PhaseIds, method \in Methods :
       \E net \in CodabenchNets(method, RunResponses) :
           LET cached == WithPhaseId(cache["codabench"], phase_id)
               res == _codabench_load_or_fetch(cached, Get(args).refresh_bench, method, net, now)
           IN  /\ cache' = [cache EXCEPT !["codabench"] = res.file]
               /\ payloads' = IF res.error = "none"
                              THEN Append(payloads, Get(res.ret))
                              ELSE payloads
               /\ call' = Some(Outcome("codabench", res.error))
               /\ pc' = AfterCodabench(res.error)
    /\ UNCHANGED <<now, target, args, runStart, combined>>

\* Lines 1184-1192: combine and write the outputs.  `combined` is the JSON
\* file of --output; with --write-index the document is rewritten next,
\* which raises when it has no leaderboard table.
WriteOutputs ==
    /\ pc = "combine"
    /\ combined' = Some(_combine_sources(payloads, now))
    /\ \E write_index \in {"", "index.html", "no table"} :
           pc' = IF write_index = "no table" THEN "failed" ELSE "done"
    /\ UNCHANGED <<cache, now, call, target, args, payloads, runStart>>

Next ==
    \/ Bootstrap
    \/ LoadCodalabOld
    \/ LoadCodalabNew
    \/ LoadCodabenchInRun
    \/ WriteOutputs

Spec == Init /\ [][Next]_vars

-----------------------------------------------------------------------------
(* Claims about the load-or-fetch functions (checked under SpecLoader       *)
(* unless stated otherwise)                                                 *)

\* The spec's notion of a placeholder snapshot, spelled out: epoch timestamp,
\* or a note that mentions "placeholder" in any case, or no rows.
SaysPlaceholder(note) ==
    note \in {Some(PlaceholderNote), Some(PlaceholderWord)}
PlaceholderSnapshot(c) ==
    /\ IsSome(c)
    /\ \/ Get(c).fetched_at = 0
       \/ SaysPlaceholder(Get(c).note)
       \/ Len(Get(c).rows) = 0
ValidSnapshot(c) == IsSome(c) /\ ~PlaceholderSnapshot(c)

\* The last call invoked its fetch and the fetch raised.
FetchFailed(c) == c.res.fetches >= 1 /\ c.res.fetched = None
\* The last call invoked its fetch and the fetch returned rows.
FetchSucceeded(c) == c.res.fetches >= 1 /\ c.res.fetched # None
\* The cache file of the last call is what it was before the call.
CacheUntouched(c) == cache[c.source] = c.pre /\ ~c.res.written

\* C1 (as claimed): for every loader, a valid cached snapshot plus a
\* requested refresh whose fetch fails returns the cached snapshot with a
\* warning, raises nothing and leaves the cache file unchanged.
C1_StaleFallbackEveryLoader ==
    IsSome(call) =>
        LET c == Get(call)
        IN  (ValidSnapshot(c.pre) /\ c.refresh /\ FetchFailed(c)) =>
                /\ c.res.error = "none"
                /\ c.res.ret = c.pre
                /\ c.res.warned
                /\ CacheUntouched(c)

\* C2 (as claimed): for every loader, no cache and refresh false fails with
\* a missing-cache error, without a fetch and without creating a cache file.
C2_MissingCacheEveryLoader ==
    IsSome(call) =>
        LET c == Get(call)
        IN  (c.pre = None /\ ~c.refresh) =>
                /\ c.res.error = "missing_cache"
                /\ c.res.fetches = 0
                /\ cache[c.source] = None

\* C2 (amended): the two CodaLab loaders fail with a missing-cache error,
\* without a fetch and without creating a cache file, when there is no cache
\* and refresh is false; the codabench loader has no missing-cache error: with
\* no cache it goes on to its fetch (once, unless the method is invalid),
\* whatever refresh says.
C2_MissingCacheCodalabOnly ==
    IsSome(call) =>
        LET c == Get(call)
        IN  (c.pre = None /\ ~c.refresh) =>
                IF c.loader = "codabench"
                THEN /\ c.res.error # "missing_cache"
                     /\ c.res.fetches = 1 \/ c.res.error = "invalid_method"
                     /\ FetchSucceeded(c) => cache[c.source] = c.res.ret /\ IsSome(c.res.ret)
                ELSE /\ c.res.error = "missing_cache"
                     /\ c.res.fetches = 0
                     /\ cache[c.source] = None

C2_Witness ==
    /\ IsSome(call)
    /\ Get(call).pre = None
    /\ ~Get(call).refresh
    /\ Get(call).loader = "results_csv"
    /\ Get(call).res.error = "missing_cache"

\* C3: for every loader, a valid cached snapshot and refresh false returns
\* exactly the cached snapshot, makes no fetch and does not write the cache.
C3_ValidCacheNoRefresh ==
    IsSome(call) =>
        LET c == Get(call)
        IN  (ValidSnapshot(c.pre) /\ ~c.refresh) =>
                /\ c.res.error = "none"
                /\ c.res.ret = c.pre
                /\ c.res.fetches = 0
                /\ CacheUntouched(c)

C3_Witness ==
    /\ IsSome(call)
    /\ ValidSnapshot(Get(call).pre)
    /\ ~Get(call).refresh
    /\ Get(call).res.ret = Get(call).pre
    /\ now > Get(Get(call).pre).fetched_at

\* What C4 asks of a call on a placeholder cache with refresh false.
OneFetchToUpgrade(c) ==
    /\ c.res.fetches = 1
    /\ FetchSucceeded(c) =>
           /\ c.res.error = "none"
           /\ IsSome(c.res.ret)
           /\ Get(c.res.ret).rows = Get(c.res.fetched)
           /\ cache[c.source] = c.res.ret
           /\ c.res.written
    /\ FetchFailed(c) =>
           /\ c.res.error = "none"
           /\ c.res.ret = c.pre
           /\ c.res.warned
           /\ CacheUntouched(c)

\* C4 (as claimed): for every loader, a placeholder cache and refresh false
\* makes exactly one fetch; its success is persisted and returned, its
\* failure returns the placeholder with a warning.
C4_PlaceholderFetchEveryLoader ==
    IsSome(call) =>
        LET c == Get(call)
        IN  (PlaceholderSnapshot(c.pre) /\ ~c.refresh) => OneFetchToUpgrade(c)

\* C4 (amended): only _codalab_load_or_fetch (the phase-API loader) makes that
\* one fetch; the codabench loader and the results-CSV loader make no fetch:
\* they return the placeholder as it is, with a warning, and leave the cache
\* file alone.
C4_PlaceholderFetchPhaseApiOnly ==
    IsSome(call) =>
        LET c == Get(call)
        IN  (PlaceholderSnapshot(c.pre) /\ ~c.refresh) =>
                IF c.loader = "phase_api"
                THEN OneFetchToUpgrade(c)
                ELSE /\ c.res.fetches = 0
                     /\ c.res.error = "none"
                     /\ c.res.ret = c.pre
                     /\ c.res.warned
                     /\ CacheUntouched(c)

C4_Witness ==
    /\ IsSome(call)
    /\ PlaceholderSnapshot(Get(call).pre)
    /\ ~Get(call).refresh
    /\ Get(call).loader = "phase_api"
    /\ FetchSucceeded(Get(call))
    /\ cache[Get(call).source] # Get(call).pre

\* C5: whenever a loader invokes its fetch and the fetch succeeds, the new
\* snapshot (the fetched rows, stamped with the current time) is returned and
\* is what the cache file holds, whatever it held before.
C5_FetchSuccessPersisted ==
    IsSome(call) =>
        LET c == Get(call)
        IN  FetchSucceeded(c) =>
                /\ c.res.error = "none"
                /\ IsSome(c.res.ret)
                /\ Get(c.res.ret).rows = Get(c.res.fetched)
                /\ Get(c.res.ret).fetched_at = c.at
                /\ Get(c.res.ret).source = c.source
                /\ cache[c.source] = c.res.ret

C5_Witness ==
    /\ IsSome(call)
    /\ FetchSucceeded(Get(call))
    /\ ValidSnapshot(Get(call).pre)
    /\ cache[Get(call).source] # Get(call).pre

\* C6: an explicitly requested refresh that fails, with no prior snapshot or
\* a placeholder one, raises the failure and leaves the cache as it was.
C6_FailedRefreshPropagates ==
    IsSome(call) =>
        LET c == Get(call)
        IN  (c.refresh /\ FetchFailed(c) /\ (c.pre = None \/ PlaceholderSnapshot(c.pre))) =>
                /\ c.res.error = "fetch"
                /\ c.res.ret = None
                /\ CacheUntouched(c)

C6_Witness ==
    /\ IsSome(call)
    /\ Get(call).refresh
    /\ FetchFailed(Get(call))
    /\ PlaceholderSnapshot(Get(call).pre)
    /\ Get(call).res.error = "fetch"

-----------------------------------------------------------------------------
(* SpecCombine: _combine_sources applied to any list of snapshots of        *)
(* different sources, in any order                                          *)

\* Rows that decide the comparison of two keys at each of its five places,
\* by a number against a number, by a missing metric, and by the team alone.
CombineRowPool ==
    {Row(Alpha, Some(1), Some(1), Some(1), Some(1)),
     Row(Beta, Some(1), Some(1), Some(1), Some(1)),
     Row(Alpha, Some(1), Some(1), Some(1), None),
     Row(Alpha, Some(1), Some(1), None, Some(1)),
     Row(Alpha, Some(1), None, Some(1), Some(1)),
     Row(Beta, None, Some(1), Some(1), Some(1)),
     Row(Beta, Some(2), None, None, None)}

TotalRows(source_payloads) ==
    Len(CollectRows(source_payloads).rows)

InitCombine ==
    /\ payloads = <<>>
    /\ combined = None
    /\ cache = [s \in Sources |-> None]
    /\ now = 1
    /\ call = None
    /\ target = [loader |-> "codabench", source |-> "codabench"]
    /\ pc = "idle"
    /\ args = NoArgs
    /\ runStart = cache

\* The caller puts one more snapshot, still without rows, at the end of the
\* list it has not combined yet.
AddSnapshot ==
    /\ combined = None
    /\ \E s \in Sources :
           /\ \A i \in 1..Len(payloads) : payloads[i].source # s
           /\ payloads' = Append(payloads, Payload(s, 1, None, None, <<>>))
    /\ combined' = None
    /\ UNCHANGED <<cache, now, call, target, pc, args, runStart>>

\* The caller gives one more row, out of pool, to a snapshot of the list.
AddRowFrom(pool) ==
    /\ combined = None
    /\ TotalRows(payloads) < MaxCombineRows
    /\ \E i \in 1..Len(payloads), r \in pool :
           payloads' = [payloads EXCEPT ![i].rows = Append(@, r)]
    /\ combined' = None
    /\ UNCHANGED <<cache, now, call, target, pc, args, runStart>>

AddRow == AddRowFrom(CombineRowPool)

\* Mutant: the loop writes source, competition_id, results_url and rank into
\* the rows of the snapshots themselves (row = r in place of row = dict(r)).
InputStampedInPlace(source_payloads) ==
    LET out == _combine_sources(source_payloads, Epoch).rows
        RankOf(r, payload) ==
            CHOOSE i \in 1..Len(out) :
                out[i].source = payload.source /\ SameStamped(out[i], r)
    IN  [k \in 1..Len(source_payloads) |->
            [source_payloads[k] EXCEPT
                !.rows = [i \in 1..Len(@) |->
                             Ranked(StampedRow(@[i], source_payloads[k]),
                                    RankOf(@[i], source_payloads[k]))]]]

\* The snapshots of the list once _combine_sources has returned: the loop
\* writes to `row = dict(r)`, a copy, and never to a row of a snapshot.
InputAfterCombine(source_payloads) == source_payloads

Combine ==
    /\ combined = None
    /\ combined' = Some(_combine_sources(payloads, now))
    /\ payloads' = InputAfterCombine(payloads)
    /\ UNCHANGED <<cache, now, call, target, pc, args, runStart>>

\* The caller calls _combine_sources once more on the list it still holds,
\* when the clock has moved on; combined keeps both results, in call order.
CombineAgain ==
    /\ Len(combined) = 1
    /\ now < MaxClock
    /\ now' = now + 1
    /\ combined' = Append(combined, _combine_sources(payloads, now'))
    /\ payloads' = InputAfterCombine(payloads)
    /\ UNCHANGED <<cache, call, target, pc, args, runStart>>

NextCombine == AddSnapshot \/ AddRow \/ Combine

SpecCombine == InitCombine /\ [][NextCombine]_vars

\* SpecCombineTwice: _combine_sources called twice on one list of snapshots.
\* Its rows tie on the whole key, tie on the metrics alone, or do not tie.
TwiceRowPool ==
    {Row(Alpha, Some(1), Some(1), Some(1), Some(1)),
     Row(Beta, Some(1), Some(1), Some(1), Some(1)),
     Row(Beta, Some(2), None, None, None)}

AddRowTwice == AddRowFrom(TwiceRowPool)

NextCombineTwice == AddSnapshot \/ AddRowTwice \/ Combine \/ CombineAgain

SpecCombineTwice == InitCombine /\ [][NextCombineTwice]_vars

-----------------------------------------------------------------------------
(* Claims about _combine_sources (checked under SpecCombine) *)

\* The snapshots of the list that have at least one row, in list order.
WithRows(source_payloads) == SelectSeq(source_payloads, LAMBDA p : Len(p.rows) >= 1)

\* C8: `sources` has exactly one entry for each input snapshot with at least
\* one row, in input order, and none for a snapshot without rows; a snapshot
\* without rows gives no output row (and combine still returns): each
\* snapshot gives as many output rows as it has rows.
C8_SourcesListContributors ==
    IsSome(combined) =>
        LET out == Get(combined)
            contributors == WithRows(payloads)
        IN  /\ Len(out.sources) = Len(contributors)
            /\ \A i \in 1..Len(contributors) :
                   /\ out.sources[i].source = contributors[i].source
                   /\ out.sources[i].competition_id = contributors[i].competition_id
                   /\ out.sources[i].results_url = contributors[i].results_url
                   /\ out.sources[i].fetched_at = contributors[i].fetched_at
            /\ \A i \in 1..Len(payloads) :
                   Cardinality({j \in 1..Len(out.rows) : out.rows[j].source = payloads[i].source})
                       = Len(payloads[i].rows)

\* Snapshots A and B with one row each and a third without rows.
C8_Witness ==
    /\ IsSome(combined)
    /\ Len(payloads) = 3
    /\ Len(payloads[1].rows) = 1
    /\ Len(payloads[2].rows) = 1
    /\ Len(payloads[3].rows) = 0
    /\ Len(Get(combined).rows) = 2
    /\ Len(Get(combined).sources) = 2

\* The order of two optional metrics, a missing one being negative infinity:
\* -1 when a is below b, 0 when they are equal, 1 when a is above b.
MetricOrder(a, b) ==
    CASE a = <<>> /\ b = <<>> -> 0
      [] a = <<>> /\ b # <<>> -> -1
      [] a # <<>> /\ b = <<>> -> 1
      [] OTHER -> IF a[1] < b[1] THEN -1 ELSE IF a[1] = b[1] THEN 0 ELSE 1

SameMetrics(r1, r2) ==
    /\ MetricOrder(r1.auc, r2.auc) = 0
    /\ MetricOrder(r1.mrr, r2.mrr) = 0
    /\ MetricOrder(r1.ndcg5, r2.ndcg5) = 0
    /\ MetricOrder(r1.ndcg10, r2.ndcg10) = 0

\* (auc, mrr, ndcg5, ndcg10, team) of r1 is lexicographically >= that of r2.
KeyNotBelow(r1, r2) ==
    \/ MetricOrder(r1.auc, r2.auc) = 1
    \/ /\ MetricOrder(r1.auc, r2.auc) = 0
       /\ \/ MetricOrder(r1.mrr, r2.mrr) = 1
          \/ /\ MetricOrder(r1.mrr, r2.mrr) = 0
             /\ \/ MetricOrder(r1.ndcg5, r2.ndcg5) = 1
                \/ /\ MetricOrder(r1.ndcg5, r2.ndcg5) = 0
                   /\ \/ MetricOrder(r1.ndcg10, r2.ndcg10) = 1
                      \/ /\ MetricOrder(r1.ndcg10, r2.ndcg10) = 0
                         /\ ~StrLess(r1.team, r2.team)

\* C9: in combine's output the key (auc, mrr, ndcg5, ndcg10, team) of each row
\* is lexicographically >= that of the next row, a missing metric counting as
\* negative infinity; so of two adjacent rows with the same four metrics the
\* team of the earlier one is not the smaller: "Beta" ranks above "Alpha".
C9_RowsDescendByKey ==
    IsSome(combined) =>
        LET rows == Get(combined).rows
        IN  \A i \in 1..(Len(rows) - 1) :
                /\ KeyNotBelow(rows[i], rows[i + 1])
                /\ SameMetrics(rows[i], rows[i + 1]) =>
                       ~(rows[i].team = Alpha /\ rows[i + 1].team = Beta)

\* "Alpha" was handed in before "Beta", with the same four metrics, and a row
\* with a missing metric is ranked as well.
C9_Witness ==
    /\ IsSome(combined)
    /\ Len(payloads) >= 1
    /\ Len(payloads[1].rows) >= 2
    /\ payloads[1].rows[1].team = Alpha
    /\ payloads[1].rows[2].team = Beta
    /\ SameMetrics(payloads[1].rows[1], payloads[1].rows[2])
    /\ Len(Get(combined).rows) = 3
    /\ Get(combined).rows[1].team = Beta
    /\ Get(combined).rows[2].team = Alpha
    /\ Get(combined).rows[3].auc = <<>>

\* The lists that hold the same snapshots as source_payloads, in any order.
Reorderings(source_payloads) ==
    LET n == Len(source_payloads)
        perms == {f \in [1..n -> 1..n] : \A i, j \in 1..n : i # j => f[i] # f[j]}
    IN  {[i \in 1..n |-> source_payloads[f[i]]] : f \in perms}

\* C10 (as claimed): the rows of combine's output, with the source stamped on
\* each position, are the same for every order of the input snapshot list.
C10_RowOrderIgnoresListOrder ==
    IsSome(combined) =>
        \A other \in Reorderings(payloads) :
            _combine_sources(other, now).rows = Get(combined).rows

-----------------------------------------------------------------------------
(* Claims about a run of main() (checked under Spec) *)

\* The command line explicitly asks for a refresh (--refresh-codalab-old,
\* --refresh-codalab, --refresh-codabench) or an override (--codalab-old-csv,
\* --codalab-new-csv) of the source.
RefreshOrOverrideAsked(source) ==
    CASE source = "codalab-old" -> Get(args).refresh_old \/ Get(args).old_csv
      [] source = "codalab-new" -> Get(args).refresh_new \/ Get(args).new_csv
      [] source = "codabench" -> Get(args).refresh_bench

\* The cache file `after` holds the rows and the fetched_at of `before`.
SameSnapshotData(before, after) ==
    /\ IsSome(after)
    /\ Get(after).rows = Get(before).rows
    /\ Get(after).fetched_at = Get(before).fetched_at

\* C7 (as claimed): during a run, the rows and fetched_at of a source's
\* persisted snapshot are replaced only if a refresh or override was
\* explicitly requested for that source or the snapshot was a placeholder; a
\* valid snapshot with no refresh requested keeps its rows and fetched_at.
C7_SnapshotReplacedOnlyOnRequest ==
    \A s \in Sources :
        (IsSome(runStart[s]) /\ ~SameSnapshotData(runStart[s], cache[s])) =>
            RefreshOrOverrideAsked(s) \/ PlaceholderSnapshot(runStart[s])

-----------------------------------------------------------------------------
(* Claims about repeated calls of _combine_sources (SpecCombineTwice) *)

\* A combined leaderboard without its generated_at.
CombinedData(c) == [sources |-> c.sources, rows |-> c.rows]

-----------------------------------------------------------------------------
(* Text helpers of the row normalizers *)

\* Bound on the length of the texts given to the text functions.
MaxTextLen == 4

\* str.strip() and the regex class \s, on the characters of the model.
IsSpace(c) == c \in {9, 10, 13, 32}

IsDigit(c) == c \in 48..57

\* str.strip()
Strip(s) ==
    LET kept == {i \in DOMAIN s : ~IsSpace(s[i])}
    IN  IF kept = {}
        THEN <<>>
        ELSE SubSeq(s, CHOOSE i \in kept : \A j \in kept : i <= j,
                       CHOOSE i \in kept : \A j \in kept : j <= i)

\* str.lower(), on the characters of the model.
Lower(s) == [i \in DOMAIN s |-> IF s[i] \in 65..90 THEN s[i] + 32 ELSE s[i]]

\* The literals of _parse_float: "na", "n/a", "none", "null", "-".
NullTokens ==
    {<<110, 97>>, <<110, 47, 97>>, <<110, 111, 110, 101>>, <<110, 117, 108, 108>>, <<45>>}

\* s.replace(",", "")
RemoveCommas(s) == SelectSeq(s, LAMBDA c : c # 44)

\* The last index of the run of digits of s that starts at i.
DigitsEnd(s, i) ==
    CHOOSE j \in i..Len(s) :
        /\ \A k \in i..j : IsDigit(s[k])
        /\ j = Len(s) \/ ~IsDigit(s[j + 1])

\* [-+]?\d+(\.\d+)? matches at index p of s, and where that match ends.
NumeralAt(s, p) ==
    LET d == IF s[p] \in {43, 45} THEN p + 1 ELSE p
    IN  d <= Len(s) /\ IsDigit(s[d])

NumeralEnd(s, p) ==
    LET d == IF s[p] \in {43, 45} THEN p + 1 ELSE p
        e == DigitsEnd(s, d)
    IN  IF e + 2 <= Len(s) /\ s[e + 1] = 46 /\ IsDigit(s[e + 2])
        THEN DigitsEnd(s, e + 2)
        ELSE e

\* re.search(r"[-+]?\d+(\.\d+)?", s): the leftmost match, or None.
NumeralSearch(s) ==
    LET starts == {p \in DOMAIN s : NumeralAt(s, p)}
    IN  IF starts = {}
        THEN None
        ELSE LET p == CHOOSE q \in starts : \A r \in starts : q <= r
             IN  Some(SubSeq(s, p, NumeralEnd(s, p)))

RECURSIVE DigitsValue(_)
DigitsValue(ds) ==
    IF ds = <<>> THEN 0
    ELSE 10 * DigitsValue(SubSeq(ds, 1, Len(ds) - 1)) + (ds[Len(ds)] - 48)

RECURSIVE DropTrailingZeros(_)
DropTrailingZeros(ds) ==
    IF ds # <<>> /\ ds[Len(ds)] = 48
    THEN DropTrailingZeros(SubSeq(ds, 1, Len(ds) - 1))
    ELSE ds

\* float(t) accepts t: an optional sign, digits, and optionally a point and
\* digits (the texts the pattern of _parse_float can match, among others).
FloatAccepts(t) ==
    /\ t # <<>>
    /\ NumeralAt(t, 1)
    /\ NumeralEnd(t, 1) = Len(t)

\* float(t) for such a t.  A float is written mant / 10^scale with the least
\* scale, so that "1.50" and "1.5" are one number.
Float(t) ==
    LET body == IF t[1] \in {43, 45} THEN SubSeq(t, 2, Len(t)) ELSE t
        e == DigitsEnd(body, 1)
        frac == DropTrailingZeros(SubSeq(body, e + 2, Len(body)))
        mant == DigitsValue(SubSeq(body, 1, e) \o frac)
    IN  [mant |-> IF t[1] = 45 THEN 0 - mant ELSE mant, scale |-> Len(frac)]

\* Mutant: a text without a numeral parses to the number 0.
ParseFloatZeroDefault(v) ==
    IF v = None THEN None
    ELSE LET s == Strip(Get(v))
         IN  IF s = <<>> \/ Lower(s) \in NullTokens THEN None
             ELSE LET m == NumeralSearch(RemoveCommas(s))
                  IN  IF m = None THEN Some([mant |-> 0, scale |-> 0])
                      ELSE Some(Float(Get(m)))

\* v is an Optional text; the result is an Optional float.
_parse_float(v) ==
    IF v = None THEN None
    ELSE LET s == Strip(Get(v))
         IN  IF s = <<>> \/ Lower(s) \in NullTokens THEN None
             ELSE LET m == NumeralSearch(RemoveCommas(s))
                  IN  IF m = None THEN None
                      ELSE IF FloatAccepts(Get(m)) THEN Some(Float(Get(m))) ELSE None

-----------------------------------------------------------------------------
(* SpecNumber: _parse_float applied to any short text *)

\* One call of a pure function: its name, its argument and what it returned.
Applied(fn, v, out) == [fn |-> fn, v |-> v, out |-> out]

\* The state before the call of a pure function on v, v out of inputs.
InitPure(inputs) ==
    /\ args \in {Some(v) : v \in inputs}
    /\ call = None
    /\ cache = [s \in Sources |-> None]
    /\ runStart = [s \in Sources |-> None]
    /\ now = 1
    /\ target = [loader |-> "codabench", source |-> "codabench"]
    /\ pc = "idle"
    /\ payloads = <<>>
    /\ combined = None

\* Digits, the separators and signs of a numeral, letters of a null token,
\* and a blank.
NumberChars == {49, 50, 48, 44, 46, 45, 43, 110, 97, 47, 32}

\* "1,234.5", "none", "null", "N/A" and " NA ", next to every short text.
NumberTexts ==
    SeqsUpTo(NumberChars, MaxTextLen)
        \cup {<<49, 44, 50, 51, 52, 46, 53>>, <<110, 111, 110, 101>>, <<110, 117, 108, 108>>,
              <<78, 47, 65>>, <<32, 78, 65, 32>>}

InitNumber == InitPure({None} \cup {Some(t) : t \in NumberTexts})

ParseFloat ==
    /\ call = None
    /\ call' = Some(Applied("_parse_float", Get(args), _parse_float(Get(args))))
    /\ UNCHANGED <<cache, now, target, pc, args, payloads, runStart, combined>>

NextNumber == ParseFloat

SpecNumber == InitNumber /\ [][NextNumber]_vars

-----------------------------------------------------------------------------
(* Claims about _parse_float (SpecNumber) *)

\* The value of the first numeral of s read by position: the first digit of
\* s, the digits after it, a point and the digits after it if a digit
\* follows the point, and the sign if one stands just before the first digit.
FirstNumeralValue(s) ==
    LET i == CHOOSE k \in DOMAIN s : IsDigit(s[k]) /\ \A j \in 1..(k - 1) : ~IsDigit(s[j])
        e == DigitsEnd(s, i)
        hasFrac == e + 2 <= Len(s) /\ s[e + 1] = 46 /\ IsDigit(s[e + 2])
        frac == IF hasFrac
                THEN DropTrailingZeros(SubSeq(s, e + 2, DigitsEnd(s, e + 2)))
                ELSE <<>>
        mant == DigitsValue(SubSeq(s, i, e) \o frac)
        neg == i > 1 /\ s[i - 1] = 45
    IN  [mant |-> IF neg THEN 0 - mant ELSE mant, scale |-> Len(frac)]

HasDigit(s) == \E i \in DOMAIN s : IsDigit(s[i])

\* C20: _parse_float returns None for no input, for an empty or blank text,
\* for na, n/a, none, null and - in any case, and for a text without a
\* digit; for any other text it returns the first signed decimal numeral of
\* the text with its commas removed.
C20_ParseNumber ==
    IsSome(call) =>
        LET v == Get(call).v
            out == Get(call).out
        IN  IF v = None
            THEN out = None
            ELSE LET s == Strip(Get(v))
                 IN  IF s = <<>> \/ Lower(s) \in NullTokens \/ ~HasDigit(s)
                     THEN out = None
                     ELSE out = Some(FirstNumeralValue(RemoveCommas(s)))

\* "1,234.5" was parsed to 1234.5.
C20_Witness ==
    /\ IsSome(call)
    /\ Get(call).v = Some(<<49, 44, 50, 51, 52, 46, 53>>)
    /\ Get(call).out = Some([mant |-> 12345, scale |-> 1])

-----------------------------------------------------------------------------
(* Column resolution *)

\* Bound on the number of headers of a table.
MaxHeaders == 3

\* re.sub(r"\s+", " ", s)
RECURSIVE CollapseSpaces(_)
CollapseSpaces(s) ==
    IF s = <<>> THEN <<>>
    ELSE LET n == Len(s)
             before == CollapseSpaces(SubSeq(s, 1, n - 1))
         IN  IF ~IsSpace(s[n]) THEN Append(before, s[n])
             ELSE IF n > 1 /\ IsSpace(s[n - 1]) THEN before
             ELSE Append(before, 32)

\* s is an Optional text.
_norm_key(s) ==
    IF s = None THEN <<>> ELSE CollapseSpaces(Casefold(Strip(Get(s))))

\* The first element of seq, in the order of seq, that satisfies Test.
FirstThat(seq, Test(_)) ==
    LET hits == {i \in DOMAIN seq : Test(seq[i])}
    IN  IF hits = {} THEN None
        ELSE Some(seq[CHOOSE i \in hits : \A j \in hits : i <= j])

\* Mutant: one pass, in which a header qualifies by an exact or by a
\* substring match.
FindColumnOnePass(headers, candidates) ==
    LET present == SelectSeq(headers, LAMBDA h : h # None)
        cand_norm == {_norm_key(Some(candidates[i])) : i \in DOMAIN candidates}
        found == FirstThat(present,
                           LAMBDA h : \E c \in cand_norm : c # <<>> /\ Contains(c, _norm_key(h)))
    IN  IF found = None THEN None ELSE Get(found)

\* headers is a list of Optional texts, candidates a list of texts; the
\* result is the header as it stands in the list, or None.
_find_column(headers, candidates) ==
    LET present == SelectSeq(headers, LAMBDA h : h # None)
        cand_norm == {_norm_key(Some(candidates[i])) : i \in DOMAIN candidates}
        exact == FirstThat(present, LAMBDA h : _norm_key(h) \in cand_norm)
        substring == FirstThat(present,
                               LAMBDA h : \E c \in cand_norm : c # <<>> /\ Contains(c, _norm_key(h)))
    IN  IF exact # None THEN Get(exact)
        ELSE IF substring # None THEN Get(substring)
        ELSE None

-----------------------------------------------------------------------------
(* SpecColumn: _find_column applied to any short list of headers and to    *)
(* candidate lists of the normalizers                                       *)

\* "team", "team name", "participant", "user", "username"
TeamCandidates ==
    <<<<116, 101, 97, 109>>,
      <<116, 101, 97, 109, 32, 110, 97, 109, 101>>,
      <<112, 97, 114, 116, 105, 99, 105, 112, 97, 110, 116>>,
      <<117, 115, 101, 114>>,
      <<117, 115, 101, 114, 110, 97, 109, 101>>>>

\* "date of last entry", "last entry", "submission date", "submitted", "date"
DateCandidates ==
    <<<<100, 97, 116, 101, 32, 111, 102, 32, 108, 97, 115, 116, 32, 101, 110, 116, 114, 121>>,
      <<108, 97, 115, 116, 32, 101, 110, 116, 114, 121>>,
      <<115, 117, 98, 109, 105, 115, 115, 105, 111, 110, 32, 100, 97, 116, 101>>,
      <<115, 117, 98, 109, 105, 116, 116, 101, 100>>,
      <<100, 97, 116, 101>>>>

\* "auc"
AucCandidates ==
    <<<<97, 117, 99>>>>

\* "mrr"
MrrCandidates ==
    <<<<109, 114, 114>>>>

\* "ndcg@5", "ndcg5", "ndcg 5"
Ndcg5Candidates ==
    <<<<110, 100, 99, 103, 64, 53>>,
      <<110, 100, 99, 103, 53>>,
      <<110, 100, 99, 103, 32, 53>>>>

\* "ndcg@10", "ndcg10", "ndcg 10"
Ndcg10Candidates ==
    <<<<110, 100, 99, 103, 64, 49, 48>>,
      <<110, 100, 99, 103, 49, 48>>,
      <<110, 100, 99, 103, 32, 49, 48>>>>

\* A list with several candidates, a list with one, and a list that no
\* header of HeaderPool matches.
CandidateLists == {TeamCandidates, AucCandidates, Ndcg5Candidates}

\* "AUC", " auc ", "Auc", "auc score", "Team  Name", "User ID", "team", ""
HeaderPool ==
    {<<65, 85, 67>>,
     <<32, 97, 117, 99, 32>>,
     <<65, 117, 99>>,
     <<97, 117, 99, 32, 115, 99, 111, 114, 101>>,
     <<84, 101, 97, 109, 32, 32, 78, 97, 109, 101>>,
     <<85, 115, 101, 114, 32, 73, 68>>,
     <<116, 101, 97, 109>>,
     <<>>}

HeaderLists == SeqsUpTo({None} \cup {Some(h) : h \in HeaderPool}, MaxHeaders)

InitColumn ==
    InitPure({[headers |-> hs, candidates |-> cs] : hs \in HeaderLists, cs \in CandidateLists})

FindColumn ==
    /\ call = None
    /\ call' = Some(Applied("_find_column", Get(args),
                            _find_column(Get(args).headers, Get(args).candidates)))
    /\ UNCHANGED <<cache, now, target, pc, args, payloads, runStart, combined>>

NextColumn == FindColumn

SpecColumn == InitColumn /\ [][NextColumn]_vars

-----------------------------------------------------------------------------
(* Claims about _find_column (SpecColumn) *)

\* str.upper(), on the characters of the model.
Upper(s) == [i \in DOMAIN s |-> IF s[i] \in 97..122 THEN s[i] - 32 ELSE s[i]]

\* The same headers written in capitals, written in small letters, put
\* between blanks, and with every blank doubled.
RECURSIVE DoubleBlanks(_)
DoubleBlanks(s) ==
    IF s = <<>> THEN <<>>
    ELSE LET before == DoubleBlanks(SubSeq(s, 1, Len(s) - 1))
         IN  IF IsSpace(s[Len(s)]) THEN before \o <<s[Len(s)], 9>>
             ELSE Append(before, s[Len(s)])

Respellings(headers) ==
    {[i \in DOMAIN headers |-> IF headers[i] = None THEN None ELSE Some(Upper(Get(headers[i])))],
     [i \in DOMAIN headers |-> IF headers[i] = None THEN None ELSE Some(Lower(Get(headers[i])))],
     [i \in DOMAIN headers |-> IF headers[i] = None THEN None ELSE Some(<<32>> \o Get(headers[i]) \o <<9, 32>>)],
     [i \in DOMAIN headers |-> IF headers[i] = None THEN None ELSE Some(DoubleBlanks(Get(headers[i])))]}

\* The place in headers of the column found: the first place that holds the
\* header returned; 0 when none was returned.
PlaceOf(headers, found) ==
    IF found = None THEN 0
    ELSE CHOOSE i \in DOMAIN headers :
             headers[i] = found /\ \A j \in 1..(i - 1) : headers[j] # found

ExactAt(headers, candidates, i) ==
    /\ headers[i] # None
    /\ \E k \in DOMAIN candidates : _norm_key(headers[i]) = _norm_key(Some(candidates[k]))

SubstringAt(headers, candidates, i) ==
    /\ headers[i] # None
    /\ \E k \in DOMAIN candidates : Contains(_norm_key(Some(candidates[k])), _norm_key(headers[i]))

\* C14: _find_column returns the first header whose normalized form equals
\* a normalized candidate; if no header does, the first header that has a
\* normalized candidate as a substring; else None.  The same headers spelled
\* with other case or other blanks resolve to the same place.
C14_ResolveColumn ==
    IsSome(call) =>
        LET hs == Get(call).v.headers
            cs == Get(call).v.candidates
            place == PlaceOf(hs, Get(call).out)
            anyExact == \E i \in DOMAIN hs : ExactAt(hs, cs, i)
            anySub == \E i \in DOMAIN hs : SubstringAt(hs, cs, i)
        IN  /\ anyExact =>
                /\ place # 0
                /\ ExactAt(hs, cs, place)
                /\ \A j \in 1..(place - 1) : ~ExactAt(hs, cs, j)
            /\ ~anyExact /\ anySub =>
                /\ place # 0
                /\ SubstringAt(hs, cs, place)
                /\ \A j \in 1..(place - 1) : ~SubstringAt(hs, cs, j)
            /\ ~anyExact /\ ~anySub => Get(call).out = None
            /\ \A other \in Respellings(hs) :
                   PlaceOf(other, _find_column(other, cs)) = place

\* The exact match "team" was found behind a header that only has the
\* candidate "user" as a substring.
C14_Witness ==
    /\ IsSome(call)
    /\ Get(call).v.candidates = TeamCandidates
    /\ Len(Get(call).v.headers) >= 2
    /\ SubstringAt(Get(call).v.headers, TeamCandidates, 1)
    /\ ~ExactAt(Get(call).v.headers, TeamCandidates, 1)
    /\ PlaceOf(Get(call).v.headers, Get(call).out) = 2

-----------------------------------------------------------------------------
(* Dates: _parse_date_any and _format_date_display *)

\* A datetime at midnight.  The texts of the model carry no time of day.
Date(year, month, day) == [year |-> year, month |-> month, day |-> day]

IsLeap(y) == ((y % 4) = 0 /\ (y % 100) # 0) \/ (y % 400) = 0

DaysIn(y, m) ==
    IF m = 2 THEN (IF IsLeap(y) THEN 29 ELSE 28)
    ELSE IF m \in {4, 6, 9, 11} THEN 30 ELSE 31

\* strftime("%b") and the names %b matches: Jan .. Dec.
MonthAbbr ==
    <<<<74, 97, 110>>,
      <<70, 101, 98>>,
      <<77, 97, 114>>,
      <<65, 112, 114>>,
      <<77, 97, 121>>,
      <<74, 117, 110>>,
      <<74, 117, 108>>,
      <<65, 117, 103>>,
      <<83, 101, 112>>,
      <<79, 99, 116>>,
      <<78, 111, 118>>,
      <<68, 101, 99>>>>

\* The names %B matches: January .. December.
MonthFull ==
    <<<<74, 97, 110, 117, 97, 114, 121>>,
      <<70, 101, 98, 114, 117, 97, 114, 121>>,
      <<77, 97, 114, 99, 104>>,
      <<65, 112, 114, 105, 108>>,
      <<77, 97, 121>>,
      <<74, 117, 110, 101>>,
      <<74, 117, 108, 121>>,
      <<65, 117, 103, 117, 115, 116>>,
      <<83, 101, 112, 116, 101, 109, 98, 101, 114>>,
      <<79, 99, 116, 111, 98, 101, 114>>,
      <<78, 111, 118, 101, 109, 98, 101, 114>>,
      <<68, 101, 99, 101, 109, 98, 101, 114>>>>

\* "{:02d}" and "{:04d}"
TwoDigits(n) == <<48 + ((n \div 10) % 10), 48 + (n % 10)>>

FourDigits(n) == TwoDigits(n \div 100) \o TwoDigits(n % 100)

_month_abbr_with_dot(dt) ==
    LET m == MonthAbbr[dt.month]
    IN  (IF m = <<83, 101, 112>> THEN <<83, 101, 112, 116>> ELSE m) \o <<46>>

\* dt is an Optional date; "{} {:02d}, {:04d}".
_format_date_display(dt) ==
    IF dt = None THEN None
    ELSE Some(_month_abbr_with_dot(Get(dt)) \o <<32>> \o TwoDigits(Get(dt).day)
                  \o <<44, 32>> \o FourDigits(Get(dt).year))

\* s without the blanks it begins with.
RECURSIVE DropBlanks(_)
DropBlanks(s) ==
    IF s # <<>> /\ IsSpace(s[1]) THEN DropBlanks(SubSeq(s, 2, Len(s))) ELSE s

StartsWith(s, prefix) ==
    Len(s) >= Len(prefix) /\ SubSeq(s, 1, Len(prefix)) = prefix

ValidDate(y, m, d) == y >= 1 /\ m \in 1..12 /\ d >= 1 /\ d <= DaysIn(y, m)

\* What strptime reads behind the month name of "<name> %d, %Y": blanks, a
\* day of one or two digits, a comma, blanks, a year of four digits and the
\* end of the text.  The result is an Optional [day, year].
DayAndYear(rest) ==
    LET r1 == DropBlanks(rest)
        two == Len(r1) >= 2 /\ IsDigit(r1[1]) /\ IsDigit(r1[2])
        n == IF two THEN 2 ELSE 1
        r2 == SubSeq(r1, n + 1, Len(r1))
        r3 == DropBlanks(SubSeq(r2, 2, Len(r2)))
    IN  IF /\ Len(r1) < Len(rest)
           /\ r1 # <<>> /\ IsDigit(r1[1])
           /\ DigitsValue(SubSeq(r1, 1, n)) \in 1..31
           /\ r2 # <<>> /\ r2[1] = 44
           /\ Len(r3) < Len(r2) - 1
           /\ Len(r3) = 4 /\ \A i \in 1..4 : IsDigit(r3[i])
        THEN Some([day |-> DigitsValue(SubSeq(r1, 1, n)), year |-> DigitsValue(r3)])
        ELSE None

\* datetime.strptime(s, "%b %d, %Y"), (s, "%b. %d, %Y") and (s, "%B %d, %Y"):
\* names are the month names of the directive, which match in any case, and
\* dot says whether a dot follows the name.  None stands for ValueError.
StrptimeNamed(s, names, dot) ==
    LET head(m) == names[m] \o (IF dot THEN <<46>> ELSE <<>>)
        read(m) == DayAndYear(SubSeq(s, Len(head(m)) + 1, Len(s)))
        hits == {m \in 1..12 :
                    /\ StartsWith(Casefold(s), Casefold(head(m)))
                    /\ read(m) # None
                    /\ ValidDate(Get(read(m)).year, m, Get(read(m)).day)}
    IN  IF hits = {} THEN None
        ELSE LET m == CHOOSE k \in hits : TRUE
             IN  Some(Date(Get(read(m)).year, m, Get(read(m)).day))

\* datetime.fromisoformat and strptime "%Y-%m-%d" on a text YYYY-MM-DD.
IsoDate(s) ==
    IF /\ Len(s) = 10
       /\ s[5] = 45 /\ s[8] = 45
       /\ \A i \in {1, 2, 3, 4, 6, 7, 9, 10} : IsDigit(s[i])
       /\ ValidDate(DigitsValue(SubSeq(s, 1, 4)), DigitsValue(SubSeq(s, 6, 7)),
                    DigitsValue(SubSeq(s, 9, 10)))
    THEN Some(Date(DigitsValue(SubSeq(s, 1, 4)), DigitsValue(SubSeq(s, 6, 7)),
                   DigitsValue(SubSeq(s, 9, 10))))
    ELSE None

\* v is an Optional text; the result is an Optional date.
_parse_date_any(v) ==
    IF v = None THEN None
    ELSE LET s == Strip(Get(v))
         IN  IF s = <<>> THEN None
             ELSE IF IsoDate(s) # None THEN IsoDate(s)
             ELSE IF StrptimeNamed(s, MonthAbbr, FALSE) # None
                  THEN StrptimeNamed(s, MonthAbbr, FALSE)
             ELSE IF StrptimeNamed(s, MonthAbbr, TRUE) # None
                  THEN StrptimeNamed(s, MonthAbbr, TRUE)
             ELSE StrptimeNamed(s, MonthFull, FALSE)

\* dt is an Optional date; dt.date().isoformat().
_date_iso(dt) ==
    IF dt = None THEN None
    ELSE Some(FourDigits(Get(dt).year) \o <<45>> \o TwoDigits(Get(dt).month)
                  \o <<45>> \o TwoDigits(Get(dt).day))

-----------------------------------------------------------------------------
(* SpecDate: a date is written by _format_date_display and the text is read *)
(* back by _parse_date_any                                                  *)

\* A common year and a leap year.
Years == {2021, 2024}

Dates ==
    {dt \in [year : Years, month : 1..12, day : 1..31] :
        ValidDate(dt.year, dt.month, dt.day)}

InitDate == InitPure(Dates)

FormatThenParse ==
    /\ call = None
    /\ LET text == _format_date_display(Some(Get(args)))
       IN  call' = Some(Applied("_format_date_display", Get(args),
                                [text |-> text, parsed |-> _parse_date_any(text)]))
    /\ UNCHANGED <<cache, now, target, pc, args, payloads, runStart, combined>>

NextDate == FormatThenParse

SpecDate == InitDate /\ [][NextDate]_vars

-----------------------------------------------------------------------------
(* Claims about the display form of dates (SpecDate) *)

\* C15: the display text of every calendar date is parsed back to that date.
C15_DisplayRoundTrip ==
    IsSome(call) => Get(call).out.parsed = Some(Get(call).v)

-----------------------------------------------------------------------------
(* The row normalizers *)

\* Bound on the number of rows of a table.
MaxTableRows == 2

\* The row a normalizer emits, without and with the date_raw field.
ParsedRow(team, auc, mrr, ndcg5, ndcg10, dt) ==
    [team |-> team, auc |-> auc, mrr |-> mrr, ndcg5 |-> ndcg5, ndcg10 |-> ndcg10,
     date_iso |-> _date_iso(dt), date_display |-> _format_date_display(dt)]

ParsedRowWithRaw(team, auc, mrr, ndcg5, ndcg10, date_iso, date_raw, date_display) ==
    [team |-> team, auc |-> auc, mrr |-> mrr, ndcg5 |-> ndcg5, ndcg10 |-> ndcg10,
     date_iso |-> date_iso, date_raw |-> date_raw, date_display |-> date_display]

\* headers as the list of Optional texts _find_column takes.
Present(headers) == [i \in DOMAIN headers |-> Some(headers[i])]

\* The cell of row under the header col (an Optional text): r.get(col) on a
\* csv.DictReader record, and cell(row, col) of _codabench_parse_table.  Of
\* two columns with one header the later one is read; a row too short for
\* the column gives None.
CellOf(headers, row, col) ==
    IF col = None THEN None
    ELSE LET at == {i \in DOMAIN headers : headers[i] = Get(col)}
         IN  IF at = {} THEN None
             ELSE LET i == CHOOSE k \in at : \A j \in at : j <= k
                  IN  IF i <= Len(row) THEN Some(row[i]) ELSE None

\* `x or ""` on an Optional text.
OrEmpty(x) == IF x = None THEN <<>> ELSE Get(x)

\* `x or None` on a text.
OrNone(s) == IF s = <<>> THEN None ELSE Some(s)

\* The rows of seq that Keep holds for, in their order, each replaced by
\* Make of it.
MapKept(seq, Keep(_), Make(_)) ==
    LET kept == SelectSeq(seq, Keep)
    IN  [i \in DOMAIN kept |-> Make(kept[i])]

\* "date of last entry", "last entry", "date": the date candidates of
\* _codabench_parse_rows.
CodabenchCsvDateCandidates == <<DateCandidates[1], DateCandidates[2], DateCandidates[5]>>

\* "ndcg@5", "ndcg5" and "ndcg@10", "ndcg10": the candidates of
\* _codalab_parse_rows.
JsonNdcg5Candidates == <<Ndcg5Candidates[1], Ndcg5Candidates[2]>>

JsonNdcg10Candidates == <<Ndcg10Candidates[1], Ndcg10Candidates[2]>>

\* The records of csv.DictReader: headers are the field names, rows the
\* lists of cells of the lines after the header line.
_parse_generic_leaderboard_rows(headers, rows) ==
    IF rows = <<>> THEN <<>>
    ELSE
    LET team_col == _find_column(Present(headers), TeamCandidates)
        date_col == _find_column(Present(headers), DateCandidates)
        auc_col == _find_column(Present(headers), AucCandidates)
        mrr_col == _find_column(Present(headers), MrrCandidates)
        ndcg5_col == _find_column(Present(headers), Ndcg5Candidates)
        ndcg10_col == _find_column(Present(headers), Ndcg10Candidates)
        team(r) == Strip(OrEmpty(CellOf(headers, r, team_col)))
        date_raw_s(r) ==
            LET date_raw == CellOf(headers, r, date_col)
            IN  IF date_raw # None THEN Strip(Get(date_raw)) ELSE <<>>
        dt(r) == IF date_raw_s(r) # <<>> THEN _parse_date_any(Some(date_raw_s(r))) ELSE None
    IN  MapKept(rows,
                LAMBDA r : team(r) # <<>>,
                LAMBDA r : ParsedRowWithRaw(
                               team(r),
                               _parse_float(CellOf(headers, r, auc_col)),
                               _parse_float(CellOf(headers, r, mrr_col)),
                               _parse_float(CellOf(headers, r, ndcg5_col)),
                               _parse_float(CellOf(headers, r, ndcg10_col)),
                               _date_iso(dt(r)),
                               OrNone(date_raw_s(r)),
                               IF dt(r) # None THEN _format_date_display(dt(r))
                               ELSE OrNone(date_raw_s(r))))

\* The shape shared by _codabench_parse_table and _codabench_parse_rows,
\* which differ in their date candidates.
CodabenchRows(headers, rows, date_candidates) ==
    LET team_col == _find_column(Present(headers), TeamCandidates)
        date_col == _find_column(Present(headers), date_candidates)
        auc_col == _find_column(Present(headers), AucCandidates)
        mrr_col == _find_column(Present(headers), MrrCandidates)
        ndcg5_col == _find_column(Present(headers), Ndcg5Candidates)
        ndcg10_col == _find_column(Present(headers), Ndcg10Candidates)
        team(r) == Strip(OrEmpty(CellOf(headers, r, team_col)))
    IN  MapKept(rows,
                LAMBDA r : team(r) # <<>>,
                LAMBDA r : ParsedRow(
                               team(r),
                               _parse_float(CellOf(headers, r, auc_col)),
                               _parse_float(CellOf(headers, r, mrr_col)),
                               _parse_float(CellOf(headers, r, ndcg5_col)),
                               _parse_float(CellOf(headers, r, ndcg10_col)),
                               _parse_date_any(CellOf(headers, r, date_col))))

\* headers and rows_2d are the texts of the th and td cells of the table.
_codabench_parse_table(headers, rows_2d) ==
    IF headers = <<>> \/ rows_2d = <<>> THEN <<>>
    ELSE CodabenchRows(headers, rows_2d, DateCandidates)

\* The records of csv.DictReader, as for _parse_generic_leaderboard_rows.
_codabench_parse_rows(headers, rows) ==
    IF headers = <<>> THEN <<>>
    ELSE CodabenchRows(headers, rows, CodabenchCsvDateCandidates)

\* idx_for of _codalab_parse_rows: a place in the labels, from 1, or None.
idx_for(labels, cands) ==
    LET found == _find_column(Present(labels), cands)
    IN  IF found = None THEN None
        ELSE Some(CHOOSE i \in DOMAIN labels :
                      labels[i] = Get(found) /\ \A j \in 1..(i - 1) : labels[j] # Get(found))

\* leaderboard.headers are the labels of the value columns; a score entry is
\* [team_name, submitted_at, values], the first two Optional texts.
_codalab_parse_rows(headers, scores) ==
    LET labels == [i \in DOMAIN headers |-> Strip(headers[i])]
        auc_i == idx_for(labels, AucCandidates)
        mrr_i == idx_for(labels, MrrCandidates)
        ndcg5_i == idx_for(labels, JsonNdcg5Candidates)
        ndcg10_i == idx_for(labels, JsonNdcg10Candidates)
        team(e) == Strip(OrEmpty(e.team_name))
        val_at(e, i) ==
            IF i = None THEN None
            ELSE IF Get(i) > Len(e.values) THEN None
            ELSE _parse_float(Some(e.values[Get(i)]))
    IN  MapKept(scores,
                LAMBDA e : team(e) # <<>>,
                LAMBDA e : ParsedRow(team(e), val_at(e, auc_i), val_at(e, mrr_i),
                                     val_at(e, ndcg5_i), val_at(e, ndcg10_i),
                                     _parse_date_any(e.submitted_at)))

\* strip_tags on a text without tags.
strip_tags(s) == Strip(CollapseSpaces(s))

\* row_html are the leaderboard lines of the static table: tds the texts of
\* the cells of a line (the first holds the rank and the date label), date
\* the text of the date label of the first cell, if it has one.
_bootstrap_rows_from_index_static_table(row_html) ==
    MapKept(row_html,
            LAMBDA tr : Len(tr.tds) >= 6 /\ strip_tags(tr.tds[1]) # <<>>,
            LAMBDA tr : ParsedRowWithRaw(
                            strip_tags(tr.tds[2]),
                            _parse_float(Some(strip_tags(tr.tds[3]))),
                            _parse_float(Some(strip_tags(tr.tds[4]))),
                            _parse_float(Some(strip_tags(tr.tds[5]))),
                            _parse_float(Some(strip_tags(tr.tds[6]))),
                            None,
                            IF tr.date = None THEN None ELSE OrNone(strip_tags(Get(tr.date))),
                            IF tr.date = None THEN None ELSE OrNone(strip_tags(Get(tr.date)))))

-----------------------------------------------------------------------------
(* SpecTable: one table of results handed to each of the row normalizers in *)
(* the form that normalizer takes                                           *)

\* The header texts of a table with a team, a date, an AUC and an nDCG@5
\* column: "Team", "Date", "AUC", "NDCG@5"; then "User", "Submitted",
\* " auc ", "ndcg 5"; then "Name", "Date", "AUC", "NDCG@5".
HeaderSpellings ==
    {[team |-> <<84, 101, 97, 109>>, date |-> <<68, 97, 116, 101>>,
      auc |-> <<65, 85, 67>>, ndcg5 |-> <<78, 68, 67, 71, 64, 53>>],
     [team |-> <<85, 115, 101, 114>>, date |-> <<83, 117, 98, 109, 105, 116, 116, 101, 100>>,
      auc |-> <<32, 97, 117, 99, 32>>, ndcg5 |-> <<110, 100, 99, 103, 32, 53>>],
     [team |-> <<78, 97, 109, 101>>, date |-> <<68, 97, 116, 101>>,
      auc |-> <<65, 85, 67>>, ndcg5 |-> <<78, 68, 67, 71, 64, 53>>]}

\* The cell texts of a row: a team "Alpha", " Beta " or blank, a date
\* "2021-09-05" or "soon", an AUC "0.9" or "n/a", an nDCG@5 "0.5".
TableRowPool ==
    [team : {<<65, 108, 112, 104, 97>>, <<32, 66, 101, 116, 97, 32>>, <<32, 32>>},
     date : {<<50, 48, 50, 49, 45, 48, 57, 45, 48, 53>>, <<115, 111, 111, 110>>},
     auc : {<<48, 46, 57>>, <<110, 47, 97>>},
     ndcg5 : {<<48, 46, 53>>}]

Tables == [spelling : HeaderSpellings, rows : SeqsUpTo(TableRowPool, MaxTableRows)]

\* The table as a CSV export and as the cells of a scraped table.
GridHeaders(t) == <<t.spelling.team, t.spelling.date, t.spelling.auc, t.spelling.ndcg5>>

GridRows(t) ==
    [i \in DOMAIN t.rows |-> <<t.rows[i].team, t.rows[i].date, t.rows[i].auc, t.rows[i].ndcg5>>]

\* The table as the leaderboard of the CodaLab phase API.
JsonHeaders(t) == <<t.spelling.auc, t.spelling.ndcg5>>

JsonScores(t) ==
    [i \in DOMAIN t.rows |->
        [team_name |-> Some(t.rows[i].team),
         submitted_at |-> Some(t.rows[i].date),
         values |-> <<t.rows[i].auc, t.rows[i].ndcg5>>]]

\* The table as the static table of index.html: rank and date label, team,
\* AUC, MRR, nDCG@5, nDCG@10.
IndexRows(t) ==
    [i \in DOMAIN t.rows |->
        [tds |-> <<<<48 + i>>, t.rows[i].team, t.rows[i].auc, <<>>, t.rows[i].ndcg5, <<>>>>,
         date |-> Some(t.rows[i].date)]]

InitTable == InitPure(Tables)

Normalized(fn, out) ==
    /\ call = None
    /\ call' = Some(Applied(fn, Get(args), out))
    /\ UNCHANGED <<cache, now, target, pc, args, payloads, runStart, combined>>

ParseGenericCsv ==
    Normalized("_parse_generic_leaderboard_rows",
               _parse_generic_leaderboard_rows(GridHeaders(Get(args)), GridRows(Get(args))))

ParseCodabenchCsv ==
    Normalized("_codabench_parse_rows",
               _codabench_parse_rows(GridHeaders(Get(args)), GridRows(Get(args))))

ParseCodabenchTable ==
    Normalized("_codabench_parse_table",
               _codabench_parse_table(GridHeaders(Get(args)), GridRows(Get(args))))

ParseCodalabJson ==
    Normalized("_codalab_parse_rows",
               _codalab_parse_rows(JsonHeaders(Get(args)), JsonScores(Get(args))))

BootstrapRows ==
    Normalized("_bootstrap_rows_from_index_static_table",
               _bootstrap_rows_from_index_static_table(IndexRows(Get(args))))

NextTable ==
    \/ ParseGenericCsv
    \/ ParseCodabenchCsv
    \/ ParseCodabenchTable
    \/ ParseCodalabJson
    \/ BootstrapRows

SpecTable == InitTable /\ [][NextTable]_vars

-----------------------------------------------------------------------------
(* Claims about the row normalizers (SpecTable) *)

\* The normalizers that find the team under a header.
ByTeamColumn ==
    {"_parse_generic_leaderboard_rows", "_codabench_parse_rows", "_codabench_parse_table"}

TeamColumnResolves(t) ==
    \E i \in 1..4 :
        \/ ExactAt(Present(GridHeaders(t)), TeamCandidates, i)
        \/ SubstringAt(Present(GridHeaders(t)), TeamCandidates, i)

\* The rows of the table that are to survive: those with a team that is not
\* blank, of a table whose team the normalizer can find.
Surviving(fn, t) ==
    IF fn \in ByTeamColumn /\ ~TeamColumnResolves(t)
    THEN <<>>
    ELSE SelectSeq(t.rows, LAMBDA r : Strip(r.team) # <<>>)

\* C12: every normalizer returns one row for each input row whose team is
\* not blank, in input order, and none for any other row; no row it returns
\* has an empty team.
C12_BlankTeamRowsDropped ==
    IsSome(call) =>
        LET out == Get(call).out
            expected == Surviving(Get(call).fn, Get(call).v)
        IN  /\ Len(out) = Len(expected)
            /\ \A i \in DOMAIN out :
                   /\ out[i].team # <<>>
                   /\ out[i].team = Strip(expected[i].team)
                   /\ out[i].auc = _parse_float(Some(expected[i].auc))

\* C13: the CSV normalizer, the normalizer of the scraped grid and the
\* normalizer of the JSON records return the same rows for the same table.
C13_NormalizersAgree ==
    IsSome(call) /\ Get(call).fn \in {"_parse_generic_leaderboard_rows",
                                      "_codabench_parse_table", "_codalab_parse_rows"} =>
        LET t == Get(call).v
        IN  /\ Get(call).out = _parse_generic_leaderboard_rows(GridHeaders(t), GridRows(t))
            /\ Get(call).out = _codabench_parse_table(GridHeaders(t), GridRows(t))
            /\ Get(call).out = _codalab_parse_rows(JsonHeaders(t), JsonScores(t))

-----------------------------------------------------------------------------
(* Claims about failures of a run of main() (Spec) *)

\* C18: a run that has ended with a fatal error has written no output.
C18_FailedRunWritesNothing ==
    pc = "failed" => combined = None

SourcesOf(source_payloads) == [i \in DOMAIN source_payloads |-> source_payloads[i].source]

\* main() tries the sources in this order.
LoadOrder == <<"codalab-old", "codalab-new", "codabench">>

NextStepAfter(source) ==
    IF source = "codalab-old" THEN "new" ELSE "bench"

\* C19: when the load of codalab-old or codalab-new fails, the run goes on
\* to the next source with the list of snapshots as it was; when the load of
\* codabench fails, the run ends and nothing is ever combined.  The
\* snapshots that are combined stand in the order codalab-old, codalab-new,
\* codabench, and codabench is among them.
C19_OptionalFailureOmitsSource ==
    /\ [][\A s \in {"codalab-old", "codalab-new"} :
              (LoadCodalabOld \/ LoadCodalabNew)
                  /\ call' = Some(Outcome(s, Get(call').error)) /\ Get(call').error # "none"
              => pc' = NextStepAfter(s) /\ payloads' = payloads]_vars
    /\ [](IsSome(call) /\ Get(call).source = "codabench" /\ Get(call).error # "none"
              => pc = "failed" /\ combined = None)
    /\ [](pc \in {"combine", "done"} =>
              /\ payloads # <<>>
              /\ payloads[Len(payloads)].source = "codabench"
              /\ \A i, j \in DOMAIN payloads :
                     i < j =>
                         \E a, b \in 1..3 :
                             /\ a < b
                             /\ LoadOrder[a] = payloads[i].source
                             /\ LoadOrder[b] = payloads[j].source)

\* A run without a codalab-old cache, without a refresh, a local CSV or a
\* bootstrap of it, has ended well with codabench as its only snapshot.
C19_Witness ==
    /\ pc = "done"
    /\ runStart["codalab-old"] = None
    /\ ~Get(args).refresh_old /\ ~Get(args).old_csv /\ ~Get(args).bootstrap
    /\ SourcesOf(payloads) = <<"codabench">>
    /\ IsSome(combined)

-----------------------------------------------------------------------------
(* The document: _render_leaderboard_rows_html and                          *)
(* _update_index_html_leaderboard                                           *)

\* Bound on the number of rows of the leaderboard that is injected.
MaxInjectRows == 2

\* index.html is a sequence of pieces of text.  The pieces the code looks
\* for or writes are told apart; any other markup is Div.
Piece(tag) == [tag |-> tag]

\* <h1 id="leaderboard">
H1 == Piece("h1")

\* A line feed, and a run of blanks.
Nl == Piece("nl")

Sp == Piece("sp")

\* <script src="./assets/data/leaderboard.js"></script> and the script
\* element behind it.
Scripts == Piece("scripts")

\* </table>
Close == Piece("close")

Div == Piece("div")

\* <table class="table performanceTable" ... >
TableTag(rest) == [tag |-> "table", rest |-> rest]

\* The lines of the header row of the table.
HeadRow(cells) == [tag |-> "head", cells |-> cells]

IsTableTag(x) == x.tag = "table"

IsBlank(x) == x.tag \in {"nl", "sp"}

\* "</table>"
ClosingTag == <<60, 47, 116, 97, 98, 108, 101, 62>>

\* fmt_metric: "{:.4f}" of a metric of the model, "" for None.
fmt_metric(v) ==
    IF v = None THEN <<>>
    ELSE <<48 + Get(v)>> \o <<46, 48, 48, 48, 48>>

\* r.get(k) for a key a row may lack.
Field(r, k) == IF k \in DOMAIN r THEN r[k] ELSE None

\* The place where sub begins in s for the first time; 0 if it does not
\* occur.
FindText(sub, s) ==
    LET at == {i \in 1..(Len(s) - Len(sub) + 1) : SubSeq(s, i, i + Len(sub) - 1) = sub}
    IN  IF at = {} THEN 0 ELSE CHOOSE i \in at : \A j \in at : i <= j

\* The lines of row i of rows.  The texts of the row are written into the
\* markup as they are, so a team that holds "</table>" puts a closing tag
\* of a table into the document.
RenderedRow(r, i) ==
    LET whole == [tag |-> "tr",
                  cls |-> IF i % 2 = 1 THEN "leaderboardline" ELSE "leaderboardlinemask",
                  rank |-> IF "rank" \in DOMAIN r /\ r.rank # 0 THEN r.rank ELSE i,
                  date_text |-> IF Field(r, "date_display") # None
                                THEN Get(r.date_display)
                                ELSE OrEmpty(Field(r, "date_raw")),
                  team |-> r.team,
                  auc |-> fmt_metric(r.auc), mrr |-> fmt_metric(r.mrr),
                  ndcg5 |-> fmt_metric(r.ndcg5), ndcg10 |-> fmt_metric(r.ndcg10)]
        at == FindText(ClosingTag, r.team)
    IN  IF at = 0 THEN <<whole>>
        ELSE <<[tag |-> "tr-open", cls |-> whole.cls, rank |-> whole.rank,
                date_text |-> whole.date_text, team |-> SubSeq(r.team, 1, at - 1)],
               Close,
               [tag |-> "tr-rest", team |-> SubSeq(r.team, at + Len(ClosingTag), Len(r.team)),
                auc |-> whole.auc, mrr |-> whole.mrr,
                ndcg5 |-> whole.ndcg5, ndcg10 |-> whole.ndcg10]>>

\* "\n".join(out) + "\n": every row is followed by a line feed.
RECURSIVE RenderFrom(_, _)
RenderFrom(rows, i) ==
    IF i > Len(rows) THEN <<>>
    ELSE RenderedRow(rows[i], i) \o <<Nl>> \o RenderFrom(rows, i + 1)

_render_leaderboard_rows_html(rows) == RenderFrom(rows, 1)

\* header_html: the table tag and the header row the code writes.
header_html == <<Sp, TableTag("plain"), Nl, HeadRow("Rank Team AUC MRR nDCG@5 nDCG@10")>>

\* str.find and str.rfind on the pieces: the first place from `from` on, and
\* the last place before `before`, that Test holds for; 0 stands for -1.
FindFrom(doc, from, Test(_)) ==
    LET at == {i \in from..Len(doc) : Test(doc[i])}
    IN  IF at = {} THEN 0 ELSE CHOOSE i \in at : \A j \in at : i <= j

FindLastBefore(doc, before, Test(_)) ==
    LET at == {i \in 1..(before - 1) : Test(doc[i])}
    IN  IF at = {} THEN 0 ELSE CHOOSE i \in at : \A j \in at : j <= i

\* re.sub(r"\s*<script ...leaderboard.js...></script>\s*<script...</script>",
\* "", html2, count=1): the first pair of scripts of the document goes, with
\* the blanks and line feeds that stand before it.
RemoveFirstScripts(doc) ==
    LET at == FindFrom(doc, 1, LAMBDA x : x = Scripts)
        solid == FindLastBefore(doc, at, LAMBDA x : ~IsBlank(x))
    IN  IF at = 0 THEN doc
        ELSE SubSeq(doc, 1, solid) \o SubSeq(doc, at + 1, Len(doc))

\* Mutant: the rows are put behind the rows the table has.
UpdateIndexAppendsRows(html, board) ==
    LET anchor == FindFrom(html, 1, LAMBDA x : x = H1)
        table_start == IF anchor = 0 THEN 0 ELSE FindFrom(html, anchor, IsTableTag)
        table_end == IF table_start = 0 THEN 0
                     ELSE FindFrom(html, table_start, LAMBDA x : x = Close)
    IN  IF anchor = 0 \/ table_start = 0 \/ table_end = 0
        THEN [error |-> "RuntimeError", html |-> html]
        ELSE [error |-> "none",
              html |-> SubSeq(html, 1, table_end - 1)
                           \o _render_leaderboard_rows_html(board.rows)
                           \o SubSeq(html, table_end, Len(html))]

\* html is the document read from index_path, board the combined
\* leaderboard; the result is the error raised, if any, and the document
\* the file holds afterwards.
_update_index_html_leaderboard(html, board) ==
    LET anchor == FindFrom(html, 1, LAMBDA x : x = H1)
        table_start == IF anchor = 0 THEN 0 ELSE FindFrom(html, anchor, IsTableTag)
        line_start == FindLastBefore(html, table_start, LAMBDA x : x = Nl)
        table_replace_start == IF line_start # 0 THEN line_start + 1 ELSE table_start
        table_end == IF table_start = 0 THEN 0
                     ELSE FindFrom(html, table_start, LAMBDA x : x = Close)
        new_table_html == header_html \o <<Nl>>
                              \o _render_leaderboard_rows_html(board.rows)
                              \o <<Sp, Close>>
        html2 == SubSeq(html, 1, table_replace_start - 1) \o new_table_html
                     \o SubSeq(html, table_end + 1, Len(html))
    IN  IF anchor = 0 \/ table_start = 0 \/ table_end = 0
        THEN [error |-> "RuntimeError", html |-> html]
        ELSE [error |-> "none", html |-> RemoveFirstScripts(html2)]

-----------------------------------------------------------------------------
(* SpecInject: a combined leaderboard is written into a document, and then  *)
(* once more into the document that came out                                *)

\* A row of a combined leaderboard; its rank is its place.
BoardRow(team, auc, date_display) ==
    [team |-> team, auc |-> auc, mrr |-> None, ndcg5 |-> None, ndcg10 |-> None,
     source |-> "codabench", competition_id |-> CompetitionId("codabench"),
     results_url |-> RESULT_URLS("codabench"), rank |-> 0,
     date_display |-> date_display]

\* Teams "Alpha", "Beta" and "x</table>"; the date "Sept. 05, 2021".
BoardRowPool ==
    {BoardRow(Alpha, Some(1), Some(<<83, 101, 112, 116, 46, 32, 48, 53, 44, 32, 50, 48, 50, 49>>)),
     BoardRow(Beta, None, None),
     BoardRow(<<120, 60, 47, 116, 97, 98, 108, 101, 62>>, Some(2), None)}

Board(rows) ==
    [generated_at |-> 1, sources |-> <<>>,
     rows |-> [i \in DOMAIN rows |-> [rows[i] EXCEPT !.rank = i]]]

Boards == {Board(rows) : rows \in SeqsUpTo(BoardRowPool, MaxInjectRows)}

\* The documents: what stands before the line of the table (the section
\* heading; a pair of scripts further up; no line feed at all; no section
\* heading), what stands on that line before the table tag, the header row
\* (the one the code writes or the one of an older page), the rows, and what
\* stands behind the table (nothing of interest; the pair of scripts right
\* behind it; the pair further down).
Documents ==
    {pre \o line \o <<TableTag("plain"), Nl, HeadRow(head), Nl>> \o rows \o <<Sp, Close>> \o post :
        pre \in {<<H1, Nl>>, <<Scripts, Nl, H1, Nl>>, <<H1>>, <<Div, Nl>>},
        line \in {<<Sp>>, <<Div>>},
        head \in {"Rank Team AUC MRR nDCG@5 nDCG@10", "Rank Team AUC"},
        rows \in {<<>>, RenderedRow(BoardRow(Alpha, Some(3), None), 1) \o <<Nl>>},
        post \in {<<Nl, Div>>, <<Nl, Scripts, Nl, Div>>, <<Nl, Div, Nl, Scripts, Nl>>}}

InitInject == InitPure({[html |-> d, combined |-> b] : d \in Documents, b \in Boards})

\* main() with --write-index on the file as it is found.
Inject ==
    /\ call = None
    /\ call' = Some(Applied("_update_index_html_leaderboard", Get(args),
                            _update_index_html_leaderboard(Get(args).html, Get(args).combined)))
    /\ UNCHANGED <<cache, now, target, pc, args, payloads, runStart, combined>>

\* The next run writes the same leaderboard into the file the first left.
InjectAgain ==
    /\ Len(call) = 1
    /\ call[1].out.error = "none"
    /\ LET v == [html |-> call[1].out.html, combined |-> Get(args).combined]
       IN  call' = Append(call, Applied("_update_index_html_leaderboard", v,
                                        _update_index_html_leaderboard(v.html, v.combined)))
    /\ UNCHANGED <<cache, now, target, pc, args, payloads, runStart, combined>>

NextInject == Inject \/ InjectAgain

SpecInject == InitInject /\ [][NextInject]_vars

-----------------------------------------------------------------------------
(* Claims about the injection into the document (SpecInject) *)

\* The leaderboard table of a document: the first table tag behind the
\* section heading, and the first closing tag behind that.
TableStart(doc) ==
    FindFrom(doc, FindFrom(doc, 1, LAMBDA x : x = H1), LAMBDA x : x.tag = "table")

TableEnd(doc) == FindFrom(doc, TableStart(doc), LAMBDA x : x = Close)

TableMarkup(doc) == SubSeq(doc, TableStart(doc), TableEnd(doc))

IsRowPiece(x) == x.tag \in {"tr", "tr-open"}

RowsOf(doc) == SelectSeq(doc, IsRowPiece)

Solid(doc) == SelectSeq(doc, LAMBDA x : ~IsBlank(x))

BeforeTable(doc) == SubSeq(doc, 1, TableStart(doc) - 1)

AfterTable(doc) == SubSeq(doc, TableEnd(doc) + 1, Len(doc))

\* The table tag and the header row.
HeaderOf(doc) ==
    SelectSeq(TableMarkup(doc), LAMBDA x : x.tag \in {"table", "head"})

\* rest without a pair of scripts that stands right behind the table.
WithoutCompanion(rest) ==
    IF Solid(rest) # <<>> /\ Solid(rest)[1] = Scripts
    THEN SubSeq(Solid(rest), 2, Len(Solid(rest)))
    ELSE Solid(rest)

\* C17: an injection leaves what stands before the table, the header of the
\* table, and what stands behind the table as they were, but for a pair of
\* scripts right behind the table, which goes.  Blanks and line feeds are
\* not compared.
C17_OnlyRowsAndCompanionChange ==
    IsSome(call) /\ call[1].out.error = "none" =>
        LET before == call[1].v.html
            after == call[1].out.html
        IN  /\ Solid(BeforeTable(after)) = Solid(BeforeTable(before))
            /\ HeaderOf(after) = HeaderOf(before)
            /\ Solid(AfterTable(after)) = WithoutCompanion(AfterTable(before))

-----------------------------------------------------------------------------
(* Claims about the ranks _combine_sources assigns (SpecCombine) *)

\* Rows i and j of a combined leaderboard tie on the entire sort key.
TieOnWholeKey(rows, i, j) ==
    /\ SameMetrics(rows[i], rows[j])
    /\ rows[i].team = rows[j].team

\* C21: in combine's output the rank of the row at position i (1-based) is
\* exactly i, for every row the snapshots hold: the ranks are 1..n without a
\* gap or a duplicate, also when rows tie on the entire sort key.
C21_RankIsPosition ==
    IsSome(combined) =>
        LET rows == Get(combined).rows
        IN  /\ Len(rows) = TotalRows(payloads)
            /\ \A i \in 1..Len(rows) : rows[i].rank = i
            /\ \A i, j \in 1..Len(rows) : i # j => rows[i].rank # rows[j].rank

\* Three rows were ranked; the first two, of different sources, tie on the
\* entire sort key and the third ties with none.
C21_Witness ==
    /\ IsSome(combined)
    /\ Len(Get(combined).rows) = 3
    /\ TieOnWholeKey(Get(combined).rows, 1, 2)
    /\ Get(combined).rows[1].source # Get(combined).rows[2].source
    /\ ~TieOnWholeKey(Get(combined).rows, 2, 3)
    /\ Get(combined).rows[2].rank = 2

-----------------------------------------------------------------------------
(* SpecPlaceholder: _is_placeholder_payload applied to the dict of any      *)
(* cache file, with its timestamp and note as text and any key missing      *)

\* "1970-01-01"
EpochDate == <<49, 57, 55, 48, 45, 48, 49, 45, 48, 49>>

\* The dict json.load makes of a cache file.  Each field is what
\* payload.get(key) returns: None for a missing key or a JSON null, else the
\* text, or the list of rows, of the key.
CacheDict(fetched_at, note, rows) ==
    [fetched_at |-> fetched_at, note |-> note, rows |-> rows]

\* Mutant: "placeholder" is looked for in the note as it is written.
IsPlaceholderDictCaseSensitive(payload) ==
    LET fetched_at == OrEmpty(payload.fetched_at)
        note == OrEmpty(payload.note)
        rows == IF payload.rows = None THEN <<>> ELSE Get(payload.rows)
    IN  \/ StartsWith(fetched_at, EpochDate)
        \/ Contains(PlaceholderWord, note)
        \/ rows = <<>>

\* _is_placeholder_payload on such a dict: `x or ""` and `x or []` first,
\* then the three tests.
IsPlaceholderDict(payload) ==
    LET fetched_at == OrEmpty(payload.fetched_at)
        note == OrEmpty(payload.note)
        rows == IF payload.rows = None THEN <<>> ELSE Get(payload.rows)
    IN  \/ StartsWith(fetched_at, EpochDate)
        \/ Contains(PlaceholderWord, Casefold(note))
        \/ rows = <<>>

\* Timestamps as _utc_now_iso writes them: midnight and noon of the epoch
\* day, and midnight of two later days; and the bare epoch date.
StampPool ==
    {Get(_date_iso(Some(Date(y, 1, d)))) \o <<84>> \o TwoDigits(h)
            \o <<58, 48, 48, 58, 48, 48, 90>> :
        y \in {1970, 2024}, d \in {1, 2}, h \in {0, 12}}
      \cup {EpochDate}

\* Notes with the word in small letters, capitalised, in capitals inside a
\* sentence, cut short, split by a blank, and without it.
NotePool ==
    {PlaceholderWord,
     PlaceholderNote,
     <<97, 32>> \o Upper(PlaceholderWord) \o <<46>>,
     SubSeq(PlaceholderWord, 1, 10),
     SubSeq(PlaceholderWord, 1, 5) \o <<32>> \o SubSeq(PlaceholderWord, 6, 11),
     LocalCsvNote,
     <<>>}

CacheDicts ==
    {CacheDict(fetched_at, note, rows) :
        fetched_at \in {None, Some(<<>>)} \cup {Some(t) : t \in StampPool},
        note \in {None} \cup {Some(t) : t \in NotePool},
        rows \in {None} \cup {Some(rs) : rs \in SeqsUpTo(FetchRowPool, 2)}}

InitPlaceholder == InitPure(CacheDicts)

IsPlaceholder ==
    /\ call = None
    /\ call' = Some(Applied("_is_placeholder_payload", Get(args), IsPlaceholderDict(Get(args))))
    /\ UNCHANGED <<cache, now, target, pc, args, payloads, runStart, combined>>

NextPlaceholder == IsPlaceholder

SpecPlaceholder == InitPlaceholder /\ [][NextPlaceholder]_vars

-----------------------------------------------------------------------------
(* Claims about _is_placeholder_payload (SpecPlaceholder) *)

\* The timestamp of the dict is one of the epoch day, 1970-01-01.
EpochTimestamp(d) ==
    /\ d.fetched_at # None
    /\ Len(Get(d.fetched_at)) >= 10
    /\ \A i \in 1..10 : Get(d.fetched_at)[i] = EpochDate[i]

\* The note of the dict holds "placeholder", in whatever case.
NoteMentionsPlaceholder(d) ==
    /\ d.note # None
    /\ Contains(Upper(PlaceholderWord), Upper(Get(d.note)))

\* The dict has no row: no rows key, a null, or an empty list.
ZeroRows(d) == d.rows = None \/ Len(Get(d.rows)) = 0

\* C22: the placeholder predicate is true for a snapshot if and only if at
\* least one of these holds: its fetched_at timestamp is the epoch (a
\* timestamp of 1970-01-01), its note contains "placeholder" in whatever
\* case, or it has zero rows, missing or null rows counting as zero.
C22_PlaceholderIffAnyOfThree ==
    IsSome(call) =>
        LET d == Get(call).v
        IN  Get(call).out <=>
                (EpochTimestamp(d) \/ NoteMentionsPlaceholder(d) \/ ZeroRows(d))

\* The predicate answered true for a dict of a later day whose note does not
\* mention the word and whose rows are missing or null.
C22_Witness ==
    /\ IsSome(call)
    /\ Get(call).out
    /\ Get(call).v.rows = None
    /\ ~EpochTimestamp(Get(call).v)
    /\ Get(call).v.fetched_at # None
    /\ Get(call).v.note = Some(LocalCsvNote)

-----------------------------------------------------------------------------
(* Claims about the candidate sets of the row normalizers (SpecTable) *)

\* The cell of row that the canonical candidates find under headers.
CanonicalCell(headers, row, candidates) ==
    CellOf(headers, row, _find_column(Present(headers), candidates))

\* What a row under headers gives when every column is resolved with the
\* canonical candidate set of that column.
CanonicalFields(headers, row) ==
    [team |-> Strip(OrEmpty(CanonicalCell(headers, row, TeamCandidates))),
     auc |-> _parse_float(CanonicalCell(headers, row, AucCandidates)),
     mrr |-> _parse_float(CanonicalCell(headers, row, MrrCandidates)),
     ndcg5 |-> _parse_float(CanonicalCell(headers, row, Ndcg5Candidates)),
     ndcg10 |-> _parse_float(CanonicalCell(headers, row, Ndcg10Candidates)),
     date_iso |-> _date_iso(_parse_date_any(CanonicalCell(headers, row, DateCandidates)))]

\* The fields of a normalized row that come from a resolved column.
ColumnFields(r, keys) == [k \in keys |-> r[k]]

\* The rows of the grid of t, and the value lists of its JSON records, that
\* have a team, read with the canonical candidates.
CanonicalGrid(t) ==
    SelectSeq([i \in DOMAIN t.rows |-> CanonicalFields(GridHeaders(t), GridRows(t)[i])],
              LAMBDA c : c.team # <<>>)

CanonicalJson(t) ==
    LET scores == SelectSeq(JsonScores(t), LAMBDA e : Strip(OrEmpty(e.team_name)) # <<>>)
    IN  [i \in DOMAIN scores |-> CanonicalFields(JsonHeaders(t), scores[i].values)]

\* C23: every row normalizer resolves its columns with the same canonical
\* candidate sets (team, date, auc, mrr, ndcg@5, ndcg@10), so that a header
\* list resolves to the same columns in every normalizer: each normalizer
\* that reads a header list returns, in every field it takes from a column,
\* the cell the canonical candidates find.
C23_SameCandidatesEveryNormalizer ==
    IsSome(call) =>
        LET t == Get(call).v
            out == Get(call).out
            byHeader == {"team", "auc", "mrr", "ndcg5", "ndcg10", "date_iso"}
            metrics == {"auc", "mrr", "ndcg5", "ndcg10"}
        IN  /\ Get(call).fn \in ByTeamColumn =>
                   /\ Len(out) = Len(CanonicalGrid(t))
                   /\ \A i \in DOMAIN out :
                          ColumnFields(out[i], byHeader) = ColumnFields(CanonicalGrid(t)[i], byHeader)
            /\ Get(call).fn = "_codalab_parse_rows" =>
                   /\ Len(out) = Len(CanonicalJson(t))
                   /\ \A i \in DOMAIN out :
                          ColumnFields(out[i], metrics) = ColumnFields(CanonicalJson(t)[i], metrics)

-----------------------------------------------------------------------------
(* Claims about the cache file over a sequence of calls (SpecLoader) *)

\* The state of a source's cache file.
CacheState(c) ==
    IF c = None THEN "NO_CACHE"
    ELSE IF PlaceholderSnapshot(c) THEN "CACHED_PLACEHOLDER"
    ELSE "CACHED_VALID"

\* C24: over any sequence of load-or-fetch calls on one source, with any
\* refresh flag and any outcome of the fetch (one that succeeds with zero
\* rows included), a cache file that is CACHED_VALID never becomes
\* CACHED_PLACEHOLDER or NO_CACHE: known-good cached rows are never replaced
\* by an empty or placeholder snapshot.
C24_ValidCacheStaysValid ==
    [][\A s \in Sources :
           CacheState(cache[s]) = "CACHED_VALID" => CacheState(cache'[s]) = "CACHED_VALID"]_vars

====
